---------------------------- MODULE Spec2Model ----------------------------
(***************************************************************************)
(* Model of the resume / job-description / match-analysis reconciliation   *)
(* code of src/app.py (class ResumeParsingBot).                            *)
(*                                                                         *)
(* Python values are modelled structurally:                                *)
(*   - a str is a sequence of one-character strings, so that lower(),      *)
(*     split(), strip(), "in" and the regular expressions are computed     *)
(*     character by character;                                             *)
(*   - a JSON value is a record [t, n, s, l, d] with tag t in              *)
(*     {"null","bool","int","float","str","list","dict"}; n holds an int,  *)
(*     a bool (0/1) or a float in tenths, s the characters of a str, l the *)
(*     elements of a list and d the entries [k, v] of a dict in insertion  *)
(*     order;                                                              *)
(*   - an operation that raises returns the value Raised.                  *)
(***************************************************************************)
EXTENDS Integers, Sequences, FiniteSets, TLC

(***************************************************************************)
(* Characters and str methods                                              *)
(***************************************************************************)

\* U+2013 EN DASH, one character of the alphabet
EnDash == "ENDASH"

UpperChars == <<"A","B","C","D","E","F","G","H","I","J","K","L","M",
                "N","O","P","Q","R","S","T","U","V","W","X","Y","Z">>

LowerChars == <<"a","b","c","d","e","f","g","h","i","j","k","l","m",
                "n","o","p","q","r","s","t","u","v","w","x","y","z">>

DigitChars == <<"0","1","2","3","4","5","6","7","8","9">>

\* the lower-case letter of each upper-case letter
LowerOf == [c \in {UpperChars[i] : i \in 1..26} |->
               LowerChars[CHOOSE i \in 1..26 : UpperChars[i] = c]]

IsLowerAlpha(c) == c \in {LowerChars[i] : i \in 1..26}

DigitOf == [c \in {DigitChars[i] : i \in 1..10} |->
               (CHOOSE i \in 1..10 : DigitChars[i] = c) - 1]

IsDigit(c) == c \in DOMAIN DigitOf

DigitVal(c) == DigitOf[c]

IsSpace(c) == c \in {" ", "\t", "\n"}

\* str.lower()
lower(s) == [i \in 1..Len(s) |-> IF s[i] \in DOMAIN LowerOf THEN LowerOf[s[i]] ELSE s[i]]

\* str.replace(a, b) for one-character a and b
replace(s, a, b) == [i \in 1..Len(s) |-> IF s[i] = a THEN b ELSE s[i]]

\* first index at which sub occurs in s, 0 when it does not (str.find + 1)
Find(s, sub) ==
    LET hits == {i \in 1..(Len(s) - Len(sub) + 1) :
                    SubSeq(s, i, i + Len(sub) - 1) = sub}
    IN  IF hits = {} THEN 0 ELSE CHOOSE i \in hits : \A j \in hits : i <= j

\* sub in s
Contains(s, sub) == Find(s, sub) # 0

\* str.split(sep), sep not empty
RECURSIVE split(_, _)
split(s, sep) ==
    LET i == Find(s, sep)
    IN  IF i = 0 THEN <<s>>
        ELSE <<SubSeq(s, 1, i - 1)>> \o split(SubSeq(s, i + Len(sep), Len(s)), sep)

\* str.strip()
strip(s) ==
    LET keep == {i \in 1..Len(s) : ~IsSpace(s[i])}
    IN  IF keep = {} THEN <<>>
        ELSE SubSeq(s, CHOOSE i \in keep : \A j \in keep : i <= j,
                       CHOOSE i \in keep : \A j \in keep : i >= j)

\* the number written by a sequence of digits
DigitsValue(s) ==
    LET f[i \in 0..Len(s)] ==
            IF i = 0 THEN 0 ELSE 10 * f[i-1] + DigitVal(s[i])
    IN  f[Len(s)]

AllDigits(s) == Len(s) > 0 /\ \A i \in 1..Len(s) : IsDigit(s[i])

\* the decimal digits of a natural number
RECURSIVE NatChars(_)
NatChars(n) ==
    IF n < 10 THEN <<DigitChars[n + 1]>>
    ELSE Append(NatChars(n \div 10), DigitChars[(n % 10) + 1])

IntChars(n) == IF n < 0 THEN <<"-">> \o NatChars(-n) ELSE NatChars(n)

\* int(s) for a str s: surrounding whitespace and one sign are accepted, then
\* digits only.  [ok |-> FALSE] stands for ValueError.
ParseInt(s) ==
    LET Signed(neg, body) ==
            IF AllDigits(body)
            THEN [ok |-> TRUE, n |-> IF neg THEN -DigitsValue(body) ELSE DigitsValue(body)]
            ELSE [ok |-> FALSE, n |-> 0]
        Stripped(t) ==
            IF Len(t) > 0 /\ t[1] \in {"+", "-"} THEN Signed(t[1] = "-", Tail(t))
            ELSE Signed(FALSE, t)
    IN  Stripped(strip(s))

\* float(s) for a str s, in tenths: [sign] digits [ "." digit ].  Strings with
\* more fractional digits, exponents, "inf" and "nan" are outside the inputs
\* of the model.
ParseFloat(s) ==
    LET Number(neg, ip, fp) ==
            IF /\ Len(ip) + Len(fp) > 0
               /\ \A i \in 1..Len(ip) : IsDigit(ip[i])
               /\ Len(fp) <= 1
               /\ \A i \in 1..Len(fp) : IsDigit(fp[i])
            THEN [ok |-> TRUE,
                  n  |-> (IF neg THEN -1 ELSE 1) * (10 * DigitsValue(ip) + DigitsValue(fp))]
            ELSE [ok |-> FALSE, n |-> 0]
        Split(neg, body, dot) ==
            IF dot = 0 THEN Number(neg, body, <<>>)
            ELSE Number(neg, SubSeq(body, 1, dot - 1), SubSeq(body, dot + 1, Len(body)))
        Signed(neg, body) == Split(neg, body, Find(body, <<".">>))
        Stripped(t) ==
            IF Len(t) > 0 /\ t[1] \in {"+", "-"} THEN Signed(t[1] = "-", Tail(t))
            ELSE Signed(FALSE, t)
    IN  Stripped(strip(s))

\* re.search(r'(\d+)', s): the first maximal run of digits, <<>> when none
FirstDigitRun(s) ==
    LET starts == {i \in 1..Len(s) : IsDigit(s[i])}
    IN  IF starts = {} THEN <<>>
        ELSE LET a == CHOOSE i \in starts : \A j \in starts : i <= j
                 stops == {j \in a..Len(s) : \A k \in a..j : IsDigit(s[k])}
                 b == CHOOSE j \in stops : \A k \in stops : j >= k
             IN  SubSeq(s, a, b)

(***************************************************************************)
(* JSON values                                                             *)
(***************************************************************************)

JV(t, n, s, l, d) == [t |-> t, n |-> n, s |-> s, l |-> l, d |-> d]

JNull     == JV("null", 0, <<>>, <<>>, <<>>)
JBool(b)  == JV("bool", IF b THEN 1 ELSE 0, <<>>, <<>>, <<>>)
JInt(n)   == JV("int", n, <<>>, <<>>, <<>>)
JFlt(n10) == JV("float", n10, <<>>, <<>>, <<>>)
JStr(s)   == JV("str", 0, s, <<>>, <<>>)
JList(l)  == JV("list", 0, <<>>, l, <<>>)
JDict(d)  == JV("dict", 0, <<>>, <<>>, d)
KV(k, v) == [k |-> k, v |-> v]

\* the outcome of an operation that raised an exception
Raised == JV("raised", 0, <<>>, <<>>, <<>>)

IsStr(v)  == v.t = "str"
IsList(v) == v.t = "list"
IsDict(v) == v.t = "dict"

\* isinstance(v, (int, float)); bool is a subclass of int
IsNumber(v) == v.t \in {"int", "float", "bool"}

\* bool(v)
Truthy(v) ==
    CASE v.t = "null"  -> FALSE
      [] v.t = "bool"  -> v.n = 1
      [] v.t = "int"   -> v.n # 0
      [] v.t = "float" -> v.n # 0
      [] v.t = "str"   -> Len(v.s) > 0
      [] v.t = "list"  -> Len(v.l) > 0
      [] v.t = "dict"  -> Len(v.d) > 0

\* the value of a number in tenths
Tenths(v) == IF v.t = "float" THEN v.n ELSE 10 * v.n

(***************************************************************************)
(* dict operations on entry sequences (insertion order kept)               *)
(***************************************************************************)

KeyIndex(d, k) ==
    LET hits == {i \in 1..Len(d) : d[i].k = k}
    IN  IF hits = {} THEN 0 ELSE CHOOSE i \in hits : TRUE

\* k in d
HasKey(d, k) == KeyIndex(d, k) # 0

\* d[k], k in d
Get(d, k) == d[KeyIndex(d, k)].v

\* d.get(k, dflt)
GetOr(d, k, dflt) == IF HasKey(d, k) THEN Get(d, k) ELSE dflt

\* d[k] = v: an existing key keeps its position
Put(d, k, v) ==
    IF HasKey(d, k)
    THEN [d EXCEPT ![KeyIndex(d, k)] = KV(k, v)]
    ELSE Append(d, KV(k, v))

\* del d[k], k in d
Del(d, k) ==
    LET i == KeyIndex(d, k)
    IN  SubSeq(d, 1, i - 1) \o SubSeq(d, i + 1, Len(d))

Keys(d) == {d[i].k : i \in 1..Len(d)}

(***************************************************************************)
(* for-loops                                                               *)
(***************************************************************************)

\* the loop "for i in a..b: acc = Step(acc, i)", evaluated by halves
RECURSIVE FoldRange(_, _, _, _)
FoldRange(Step(_, _), acc, a, b) ==
    IF a > b THEN acc
    ELSE IF a = b THEN Step(acc, a)
    ELSE LET m    == (a + b) \div 2
             left == FoldRange(Step, acc, a, m)
         IN  IF left = left THEN FoldRange(Step, left, m + 1, b) ELSE left

(***************************************************************************)
(* str(v) and repr(v)                                                      *)
(***************************************************************************)

\* str(x) of a float kept in tenths: "7.5", "9.0", "-0.5"
FloatChars(n10) ==
    LET m == IF n10 < 0 THEN -n10 ELSE n10
    IN  (IF n10 < 0 THEN <<"-">> ELSE <<>>)
            \o NatChars(m \div 10) \o <<".">> \o NatChars(m % 10)

RECURSIVE PyRepr(_)
PyRepr(v) ==
    CASE v.t = "null"  -> <<"N","o","n","e">>
      [] v.t = "bool"  -> IF v.n = 1 THEN <<"T","r","u","e">> ELSE <<"F","a","l","s","e">>
      [] v.t = "int"   -> IntChars(v.n)
      [] v.t = "float" -> FloatChars(v.n)
      [] v.t = "str"   -> <<"'">> \o v.s \o <<"'">>
      [] v.t = "list"  ->
            LET f[i \in 0..Len(v.l)] ==
                    IF i = 0 THEN <<>>
                    ELSE f[i-1] \o (IF i > 1 THEN <<",", " ">> ELSE <<>>) \o PyRepr(v.l[i])
            IN  <<"[">> \o f[Len(v.l)] \o <<"]">>
      [] v.t = "dict"  ->
            LET f[i \in 0..Len(v.d)] ==
                    IF i = 0 THEN <<>>
                    ELSE f[i-1] \o (IF i > 1 THEN <<",", " ">> ELSE <<>>)
                            \o <<"'">> \o v.d[i].k \o <<"'", ":", " ">> \o PyRepr(v.d[i].v)
            IN  <<"{">> \o f[Len(v.d)] \o <<"}">>

\* str(v)
PyStr(v) == IF v.t = "str" THEN v.s ELSE PyRepr(v)

(***************************************************************************)
(* Keys and string literals of the records                                 *)
(***************************************************************************)

\* the keys of a candidate record, of its Experience and Education entries
\* and of a Duration
ResumeKey ==
    [StartDate           |-> <<"S","t","a","r","t","D","a","t","e">>,
     EndDate             |-> <<"E","n","d","D","a","t","e">>,
     CandidateFullName   |-> <<"C","a","n","d","i","d","a","t","e","F","u","l","l","N","a","m","e">>,
     EmailAddress        |-> <<"E","m","a","i","l","A","d","d","r","e","s","s">>,
     PhoneNumber         |-> <<"P","h","o","n","e","N","u","m","b","e","r">>,
     Skills              |-> <<"S","k","i","l","l","s">>,
     Experience          |-> <<"E","x","p","e","r","i","e","n","c","e">>,
     Education           |-> <<"E","d","u","c","a","t","i","o","n">>,
     StabilityAssessment |-> <<"S","t","a","b","i","l","i","t","y","A","s","s","e","s","s","m","e","n","t">>,
     CompanyName         |-> <<"C","o","m","p","a","n","y","N","a","m","e">>,
     Position            |-> <<"P","o","s","i","t","i","o","n">>,
     Duration            |-> <<"D","u","r","a","t","i","o","n">>,
     CompanyType         |-> <<"C","o","m","p","a","n","y","T","y","p","e">>,
     BusinessType        |-> <<"B","u","s","i","n","e","s","s","T","y","p","e">>,
     NumberOfEmployees   |-> <<"N","u","m","b","e","r","O","f","E","m","p","l","o","y","e","e","s">>,
     CompanyRevenue      |-> <<"C","o","m","p","a","n","y","R","e","v","e","n","u","e">>,
     Funding             |-> <<"F","u","n","d","i","n","g">>,
     Location            |-> <<"L","o","c","a","t","i","o","n">>,
     CollegeUniversity   |-> <<"C","o","l","l","e","g","e","U","n","i","v","e","r","s","i","t","y">>,
     CourseDegree        |-> <<"C","o","u","r","s","e","D","e","g","r","e","e">>,
     GraduationYear      |-> <<"G","r","a","d","u","a","t","i","o","n","Y","e","a","r">>]

\* the string literals the methods store as values
Literal ==
    [NotFound     |-> JStr(<<"N","o","t"," ","f","o","u","n","d">>),
     NotSpecified |-> JStr(<<"N","o","t"," ","s","p","e","c","i","f","i","e","d">>),
     Present      |-> JStr(<<"P","r","e","s","e","n","t">>),
     NotProvided  |-> JStr(<<"N","o","t"," ","p","r","o","v","i","d","e","d">>),
     Yes          |-> JStr(<<"Y","e","s">>),
     No           |-> JStr(<<"N","o">>),
     Selected     |-> JStr(<<"S","e","l","e","c","t","e","d">>),
     Rejected     |-> JStr(<<"R","e","j","e","c","t","e","d">>),
     Pending      |-> JStr(<<"P","e","n","d","i","n","g">>),
     Unknown      |-> JStr(<<"U","n","k","n","o","w","n">>),
     success      |-> JStr(<<"s","u","c","c","e","s","s">>),
     error        |-> JStr(<<"e","r","r","o","r">>)]

(***************************************************************************)
(* ResumeParsingBot._parse_duration                                        *)
(***************************************************************************)

MonthAbbrevs == {<<"j","a","n">>, <<"f","e","b">>, <<"m","a","r">>, <<"a","p","r">>, <<"m","a","y">>, <<"j","u","n">>, <<"j","u","l">>, <<"a","u","g">>, <<"s","e","p">>, <<"o","c","t">>, <<"n","o","v">>, <<"d","e","c">>}

PresentWords == {<<"p","r","e","s","e","n","t">>, <<"c","u","r","r","e","n","t">>, <<"n","o","w">>, <<"o","n","g","o","i","n","g">>}

\* length of the match of (?:[a-z]{3}|\d{1,2})[- ](?:\d{2}|\d{4}) that starts at
\* index i of s, 0 when there is none; the last group always takes the first
\* alternative, two digits
DatePatternLen(s, i) ==
    LET at(j)    == IF j <= Len(s) THEN s[j] ELSE ""
        tail(j)  == at(j) \in {"-", " "} /\ IsDigit(at(j + 1)) /\ IsDigit(at(j + 2))
    IN  IF IsLowerAlpha(at(i)) /\ IsLowerAlpha(at(i + 1)) /\ IsLowerAlpha(at(i + 2))
           /\ tail(i + 3) THEN 6
        ELSE IF IsDigit(at(i)) /\ IsDigit(at(i + 1)) /\ tail(i + 2) THEN 5
        ELSE IF IsDigit(at(i)) /\ tail(i + 1) THEN 4
        ELSE 0

\* len(re.findall(date_pattern, s)): leftmost, non-overlapping matches
RECURSIVE CountDatePatterns(_, _)
CountDatePatterns(s, i) ==
    IF i > Len(s) THEN 0
    ELSE LET n == DatePatternLen(s, i)
         IN  IF n = 0 THEN CountDatePatterns(s, i + 1)
             ELSE 1 + CountDatePatterns(s, i + n)

\* re.search(r'(.+) ?- ?(.+)', s): the greedy first group ends right before the
\* last "-" that has a character on both sides; the two groups stripped, <<>>
\* when there is no match
DashSearch(s) ==
    LET dashes == {p \in 2..(Len(s) - 1) : s[p] = "-"}
    IN  IF dashes = {} THEN <<>>
        ELSE LET p == CHOOSE q \in dashes : \A r \in dashes : q >= r
             IN  <<strip(SubSeq(s, 1, p - 1)), strip(SubSeq(s, p + 1, Len(s)))>>

\* DurationParts with " - " tried before " to "
DurationPartsDashFirst(s) ==
    IF Contains(s, <<" ","-"," ">>) THEN split(s, <<" ","-"," ">>)
    ELSE IF Contains(s, <<" ","t","o"," ">>) THEN split(s, <<" ","t","o"," ">>)
    ELSE IF Contains(s, <<"-">>)
         THEN IF ~\E m \in MonthAbbrevs : Contains(lower(s), m)
              THEN split(s, <<"-">>)
              ELSE IF CountDatePatterns(lower(s), 1) >= 2 THEN DashSearch(s) ELSE <<>>
    ELSE <<>>

\* the parts the duration string is split into; <<>> stands for the early
\* returns of the whole string
DurationParts(s) ==
    IF Contains(s, <<" ","t","o"," ">>) THEN split(s, <<" ","t","o"," ">>)
    ELSE IF Contains(s, <<" ","-"," ">>) THEN split(s, <<" ","-"," ">>)
    ELSE IF Contains(s, <<"-">>)
         THEN IF ~\E m \in MonthAbbrevs : Contains(lower(s), m)
              THEN split(s, <<"-">>)
              ELSE IF CountDatePatterns(lower(s), 1) >= 2 THEN DashSearch(s) ELSE <<>>
    ELSE <<>>

\* _parse_duration without the except clause: the AttributeError of
\* duration_string.replace on a value that is not a str leaves the method
ParseDurationUncaught(v) ==
    LET Ends(start, end) ==
            JDict(<<KV(ResumeKey.StartDate, JStr(start)),
                    KV(ResumeKey.EndDate, IF lower(end) \in PresentWords THEN Literal.Present ELSE JStr(end))>>)
        Split(s, parts) ==
            IF Len(parts) = 2 THEN Ends(strip(parts[1]), strip(parts[2]))
            ELSE JDict(<<KV(ResumeKey.StartDate, JStr(s)), KV(ResumeKey.EndDate, Literal.NotSpecified)>>)
        Parse(s) == Split(s, DurationParts(s))
    IN  IF ~Truthy(v)
        THEN JDict(<<KV(ResumeKey.StartDate, Literal.NotSpecified), KV(ResumeKey.EndDate, Literal.NotSpecified)>>)
        ELSE IF ~IsStr(v)
        THEN Raised
        ELSE Parse(replace(v.s, EnDash, "-"))

_parse_duration(v) ==
    LET Ends(start, end) ==
            JDict(<<KV(ResumeKey.StartDate, JStr(start)),
                    KV(ResumeKey.EndDate, IF lower(end) \in PresentWords THEN Literal.Present ELSE JStr(end))>>)
        Split(s, parts) ==
            IF Len(parts) = 2 THEN Ends(strip(parts[1]), strip(parts[2]))
            ELSE JDict(<<KV(ResumeKey.StartDate, JStr(s)), KV(ResumeKey.EndDate, Literal.NotSpecified)>>)
        Parse(s) == Split(s, DurationParts(s))
    IN  IF ~Truthy(v)
        THEN JDict(<<KV(ResumeKey.StartDate, Literal.NotSpecified), KV(ResumeKey.EndDate, Literal.NotSpecified)>>)
        ELSE IF ~IsStr(v)
        \* duration_string.replace raises AttributeError, caught by the bare except
        THEN JDict(<<KV(ResumeKey.StartDate, v), KV(ResumeKey.EndDate, Literal.NotSpecified)>>)
        ELSE Parse(replace(v.s, EnDash, "-"))

(***************************************************************************)
(* ResumeParsingBot._normalize_resume_fields                               *)
(***************************************************************************)

\* field_mappings of _normalize_resume_fields: lower-case variation -> standard field
ResumeFieldMappings == <<
    KV(<<"c","a","n","d","i","d","a","t","e","_","f","u","l","l","_","n","a","m","e">>, ResumeKey.CandidateFullName),
    KV(<<"c","a","n","d","i","d","a","t","e","_","n","a","m","e">>, ResumeKey.CandidateFullName),
    KV(<<"f","u","l","l","_","n","a","m","e">>, ResumeKey.CandidateFullName),
    KV(<<"n","a","m","e">>, ResumeKey.CandidateFullName),
    KV(<<"c","a","n","d","i","d","a","t","e">>, ResumeKey.CandidateFullName),
    KV(<<"e","m","a","i","l","_","a","d","d","r","e","s","s">>, ResumeKey.EmailAddress),
    KV(<<"e","m","a","i","l">>, ResumeKey.EmailAddress),
    KV(<<"p","h","o","n","e","_","n","u","m","b","e","r">>, ResumeKey.PhoneNumber),
    KV(<<"p","h","o","n","e">>, ResumeKey.PhoneNumber),
    KV(<<"c","o","n","t","a","c","t">>, ResumeKey.PhoneNumber),
    KV(<<"c","o","n","t","a","c","t","_","n","u","m","b","e","r">>, ResumeKey.PhoneNumber),
    KV(<<"s","k","i","l","l","s">>, ResumeKey.Skills),
    KV(<<"t","e","c","h","n","i","c","a","l","_","s","k","i","l","l","s">>, ResumeKey.Skills),
    KV(<<"s","k","i","l","l","_","s","e","t">>, ResumeKey.Skills),
    KV(<<"w","o","r","k","_","e","x","p","e","r","i","e","n","c","e">>, ResumeKey.Experience),
    KV(<<"e","x","p","e","r","i","e","n","c","e">>, ResumeKey.Experience),
    KV(<<"e","m","p","l","o","y","m","e","n","t","_","h","i","s","t","o","r","y">>, ResumeKey.Experience),
    KV(<<"w","o","r","k","_","h","i","s","t","o","r","y">>, ResumeKey.Experience),
    KV(<<"c","o","m","p","a","n","i","e","s">>, ResumeKey.Experience),
    KV(<<"e","d","u","c","a","t","i","o","n","_","d","e","t","a","i","l","s">>, ResumeKey.Education),
    KV(<<"e","d","u","c","a","t","i","o","n">>, ResumeKey.Education),
    KV(<<"e","d","u","c","a","t","i","o","n","a","l","_","b","a","c","k","g","r","o","u","n","d">>, ResumeKey.Education),
    KV(<<"a","c","a","d","e","m","i","c","_","b","a","c","k","g","r","o","u","n","d">>, ResumeKey.Education),
    KV(<<"a","c","a","d","e","m","i","c","_","d","e","t","a","i","l","s">>, ResumeKey.Education),
    KV(<<"o","v","e","r","a","l","l","_","s","t","a","b","i","l","i","t","y","_","a","s","s","e","s","s","m","e","n","t">>, ResumeKey.StabilityAssessment),
    KV(<<"s","t","a","b","i","l","i","t","y","_","a","s","s","e","s","s","m","e","n","t">>, ResumeKey.StabilityAssessment),
    KV(<<"s","t","a","b","i","l","i","t","y">>, ResumeKey.StabilityAssessment) >>

ResumeStandardFields ==
    <<ResumeKey.CandidateFullName, ResumeKey.EmailAddress, ResumeKey.PhoneNumber, ResumeKey.Skills,
      ResumeKey.Experience, ResumeKey.Education, ResumeKey.StabilityAssessment>>

\* ResumeMapFields keeping the value of mapped fields only: a key that is not
\* in the table is stored with the placeholder
ResumeMapFieldsMappedOnly(data) ==
    LET Step(prev, i) ==
            LET field == data[i].k
            IN  IF HasKey(ResumeFieldMappings, lower(field))
                THEN Put(prev, Get(ResumeFieldMappings, lower(field)), data[i].v)
                ELSE Put(prev, field, Literal.NotFound)
    IN  FoldRange(Step, <<>>, 1, Len(data))

\* ResumeMapFields keeping the first value stored under a name: a later key
\* of the same standard field is ignored
ResumeMapFieldsFirstWins(data) ==
    LET Step(prev, i) ==
            LET field == data[i].k
                Store(name) == IF HasKey(prev, name) THEN prev ELSE Put(prev, name, data[i].v)
            IN  IF HasKey(ResumeFieldMappings, lower(field))
                THEN Store(Get(ResumeFieldMappings, lower(field)))
                ELSE Store(field)
    IN  FoldRange(Step, <<>>, 1, Len(data))

\* "Normalize the main fields": a key whose lower-case form is in the table is
\* stored under its standard field, any other key under itself
ResumeMapFields(data) ==
    LET Step(prev, i) ==
            LET field == data[i].k
            IN  IF HasKey(ResumeFieldMappings, lower(field))
                THEN Put(prev, Get(ResumeFieldMappings, lower(field)), data[i].v)
                ELSE Put(prev, field, data[i].v)
    IN  FoldRange(Step, <<>>, 1, Len(data))

\* the structured branch of the duration mapping: keys containing "start" /
\* "end" become StartDate / EndDate, the standard keys are added when no key
\* matched (json keys are strings, so dk.lower() does not raise)
NormalizeDurationDict(value) ==
    LET Step(prev, i) ==
            LET Store(dk_lower) ==
                    IF Contains(dk_lower, <<"s","t","a","r","t">>)
                    THEN Put(prev, ResumeKey.StartDate, value[i].v)
                    ELSE IF Contains(dk_lower, <<"e","n","d">>)
                    THEN Put(prev, ResumeKey.EndDate, value[i].v)
                    ELSE Put(prev, value[i].k, value[i].v)
            IN  Store(lower(value[i].k))
        has_start_key == \E i \in 1..Len(value) : Contains(lower(value[i].k), <<"s","t","a","r","t">>)
        has_end_key   == \E i \in 1..Len(value) :
                            /\ ~Contains(lower(value[i].k), <<"s","t","a","r","t">>)
                            /\ Contains(lower(value[i].k), <<"e","n","d">>)
        WithStart(d) == IF has_start_key THEN d ELSE Put(d, ResumeKey.StartDate, Literal.NotSpecified)
        WithEnd(d)   == IF has_end_key THEN d ELSE Put(d, ResumeKey.EndDate, Literal.NotSpecified)
    IN  WithEnd(WithStart(FoldRange(Step, <<>>, 1, Len(value))))

\* the key an experience field is stored under
ExperienceFieldName(field) ==
    LET Name(field_lower) ==
          CASE field_lower \in
                   {<<"c","o","m","p","a","n","y","n","a","m","e">>,
                    <<"c","o","m","p","a","n","y"," ","n","a","m","e">>,
                    <<"c","o","m","p","a","n","y">>}
                 -> ResumeKey.CompanyName
            [] field_lower \in
                   {<<"p","o","s","i","t","i","o","n">>,
                    <<"r","o","l","e">>,
                    <<"j","o","b","_","t","i","t","l","e">>,
                    <<"t","i","t","l","e">>}
                 -> ResumeKey.Position
            [] field_lower \in
                   {<<"d","u","r","a","t","i","o","n">>,
                    <<"p","e","r","i","o","d">>,
                    <<"t","e","n","u","r","e">>}
                 -> ResumeKey.Duration
            [] field_lower \in
                   {<<"p","r","o","d","u","c","t","_","o","r","_","s","e","r","v","i","c","e">>,
                    <<"c","o","m","p","a","n","y","_","t","y","p","e">>,
                    <<"c","o","m","p","a","n","y","t","y","p","e">>,
                    <<"t","y","p","e"," ","o","f"," ","c","o","m","p","a","n","y">>}
                 -> ResumeKey.CompanyType
            [] field_lower \in
                   {<<"b","u","s","i","n","e","s","s","_","t","y","p","e">>,
                    <<"b","u","s","i","n","e","s","s","t","y","p","e">>,
                    <<"b","u","s","i","n","e","s","s"," ","m","o","d","e","l">>}
                 -> ResumeKey.BusinessType
            [] field_lower \in
                   {<<"n","u","m","b","e","r","_","o","f","_","e","m","p","l","o","y","e","e","s">>,
                    <<"e","m","p","l","o","y","e","e","_","c","o","u","n","t">>,
                    <<"s","i","z","e">>,
                    <<"c","o","m","p","a","n","y"," ","s","i","z","e">>,
                    <<"e","m","p","l","o","y","e","e","s">>}
                 -> ResumeKey.NumberOfEmployees
            [] field_lower \in
                   {<<"c","o","m","p","a","n","y","_","r","e","v","e","n","u","e">>,
                    <<"r","e","v","e","n","u","e">>,
                    <<"t","u","r","n","o","v","e","r">>,
                    <<"a","n","n","u","a","l"," ","r","e","v","e","n","u","e">>}
                 -> ResumeKey.CompanyRevenue
            [] field_lower \in
                   {<<"f","u","n","d","i","n","g","_","r","e","c","e","i","v","e","d">>,
                    <<"f","u","n","d","i","n","g">>,
                    <<"i","n","v","e","s","t","m","e","n","t">>}
                 -> ResumeKey.Funding
            [] field_lower \in
                   {<<"c","o","m","p","a","n","y","_","l","o","c","a","t","i","o","n">>,
                    <<"l","o","c","a","t","i","o","n">>}
                 -> ResumeKey.Location
            [] OTHER -> field
    IN  Name(lower(field))

\* one experience entry (a dict) with its fields renamed and its duration
\* structured
NormalizeExperienceEntry(exp) ==
    LET Step(prev, i) ==
            LET Store(value, name) ==
                    IF name = ResumeKey.Duration
                    THEN Put(prev, ResumeKey.Duration,
                             IF IsDict(value) THEN JDict(NormalizeDurationDict(value.d))
                             ELSE _parse_duration(value))
                    ELSE Put(prev, name, value)
            IN  Store(exp[i].v, ExperienceFieldName(exp[i].k))
    IN  FoldRange(Step, <<>>, 1, Len(exp))

\* the key an education field is stored under
EducationFieldName(field) ==
    LET Name(field_lower) ==
          CASE field_lower \in
                   {<<"c","o","l","l","e","g","e","_","u","n","i","v","e","r","s","i","t","y","_","n","a","m","e">>,
                    <<"u","n","i","v","e","r","s","i","t","y">>,
                    <<"c","o","l","l","e","g","e">>,
                    <<"i","n","s","t","i","t","u","t","i","o","n">>,
                    <<"s","c","h","o","o","l">>}
                 -> ResumeKey.CollegeUniversity
            [] field_lower \in
                   {<<"c","o","u","r","s","e","_","d","e","g","r","e","e">>,
                    <<"d","e","g","r","e","e">>,
                    <<"q","u","a","l","i","f","i","c","a","t","i","o","n">>,
                    <<"c","o","u","r","s","e">>,
                    <<"p","r","o","g","r","a","m">>}
                 -> ResumeKey.CourseDegree
            [] field_lower \in
                   {<<"g","r","a","d","u","a","t","i","o","n","_","y","e","a","r">>,
                    <<"y","e","a","r">>,
                    <<"c","o","m","p","l","e","t","i","o","n","_","y","e","a","r">>,
                    <<"y","e","a","r","_","o","f","_","g","r","a","d","u","a","t","i","o","n">>}
                 -> ResumeKey.GraduationYear
            [] OTHER -> field
    IN  Name(lower(field))

NormalizeEducationEntry(edu) ==
    LET Step(prev, i) ==
            Put(prev, EducationFieldName(edu[i].k), edu[i].v)
    IN  FoldRange(Step, <<>>, 1, Len(edu))

\* the loop "for i, x in enumerate(lst): ... lst[i] = normalized": x.items()
\* raises AttributeError on the first element that is not a dict
NormalizeExperienceList(l) ==
    IF \E i \in 1..Len(l) : ~IsDict(l[i]) THEN Raised
    ELSE JList([i \in 1..Len(l) |-> JDict(NormalizeExperienceEntry(l[i].d))])

NormalizeEducationList(l) ==
    IF \E i \in 1..Len(l) : ~IsDict(l[i]) THEN Raised
    ELSE JList([i \in 1..Len(l) |-> JDict(NormalizeEducationEntry(l[i].d))])

\* the first key of the list that is in the dict, <<>> for None
FirstKeyIn(keys, d) ==
    LET hits == {i \in 1..Len(keys) : HasKey(d, keys[i])}
    IN  IF hits = {} THEN <<>>
        ELSE keys[CHOOSE i \in hits : \A j \in hits : i <= j]

ExperienceKeys ==
    <<<<"E","x","p","e","r","i","e","n","c","e">>,
     <<"e","x","p","e","r","i","e","n","c","e">>,
     <<"w","o","r","k","_","e","x","p","e","r","i","e","n","c","e">>,
     <<"e","m","p","l","o","y","m","e","n","t","_","h","i","s","t","o","r","y">>,
     <<"w","o","r","k","_","h","i","s","t","o","r","y">>,
     <<"c","o","m","p","a","n","i","e","s">>>>

EducationKeys ==
    <<<<"E","d","u","c","a","t","i","o","n">>,
     <<"e","d","u","c","a","t","i","o","n">>,
     <<"e","d","u","c","a","t","i","o","n","_","d","e","t","a","i","l","s">>,
     <<"e","d","u","c","a","t","i","o","n","a","l","_","b","a","c","k","g","r","o","u","n","d">>,
     <<"a","c","a","d","e","m","i","c","_","b","a","c","k","g","r","o","u","n","d">>,
     <<"a","c","a","d","e","m","i","c","_","d","e","t","a","i","l","s">>>>

\* index of the entry of data whose value object is the one stored under the
\* standard field (the last key mapped to it), 0 when there is none
SourceIndex(data, standard) ==
    LET hits == {i \in 1..Len(data) :
                    /\ HasKey(ResumeFieldMappings, lower(data[i].k))
                    /\ Get(ResumeFieldMappings, lower(data[i].k)) = standard}
    IN  IF hits = {} THEN 0 ELSE CHOOSE i \in hits : \A j \in hits : i >= j

\* pop(key) followed by the store under the standard name
RenameKey(nd, key, standard) ==
    IF key = standard THEN nd ELSE Put(Del(nd, key), standard, Get(nd, key))

\* "Ensure all standard fields exist"
ResumeFillStandard(nd, data) ==
    LET Step(prev, i) ==
            LET field == ResumeStandardFields[i]
                found == {j \in 1..Len(data) :
                             /\ HasKey(ResumeFieldMappings, lower(data[j].k))
                             /\ Get(ResumeFieldMappings, lower(data[j].k)) = field}
            IN  IF HasKey(prev, field) THEN prev
                ELSE IF found # {}
                THEN Put(prev, field,
                         data[CHOOSE j \in found : \A k \in found : j <= k].v)
                ELSE IF field \in {ResumeKey.Skills, ResumeKey.Experience, ResumeKey.Education}
                THEN Put(prev, field, JList(<<>>))
                ELSE Put(prev, field, Literal.NotFound)
    IN  FoldRange(Step, nd, 1, Len(ResumeStandardFields))

\* "Copy any remaining metadata fields": the test against the table's keys
\* is case-sensitive
ResumeCopyMetadata(nd, data) ==
    LET Step(prev, i) ==
            LET field == data[i].k
            IN  IF ~HasKey(ResumeFieldMappings, field) /\ ~HasKey(prev, field)
                THEN Put(prev, field, data[i].v)
                ELSE prev
    IN  FoldRange(Step, nd, 1, Len(data))

\* "Normalize nested fields in Experience" and "... in Education", told apart
\* by the standard name.  The list is normalized in place: the list object
\* stored in normalized_data is the one the raw object holds, so the raw entry
\* it came from changes with it
NestedStep(st, keys, standard) ==
    LET Normalize(l) ==
            IF standard = ResumeKey.Experience THEN NormalizeExperienceList(l)
            ELSE NormalizeEducationList(l)
        Store(key, nl, src) ==
            IF nl = Raised THEN [st EXCEPT !.raised = TRUE]
            ELSE [nd     |-> RenameKey(Put(st.nd, key, nl), key, standard),
                  data   |-> IF src = 0 THEN st.data
                             ELSE [st.data EXCEPT ![src] = KV(st.data[src].k, nl)],
                  raised |-> FALSE]
        Found(key) ==
            IF st.raised \/ key = <<>> \/ ~IsList(Get(st.nd, key)) THEN st
            ELSE Store(key, Normalize(Get(st.nd, key).l), SourceIndex(st.data, standard))
    IN  Found(FirstKeyIn(keys, st.nd))

\* the call _normalize_resume_fields(data): val is the returned record (Raised
\* when the call raises) and data the raw object after the call
_normalize_resume_fields(data) ==
    LET Finish(s) ==
            IF s.raised THEN [val |-> Raised, data |-> s.data]
            ELSE [val  |-> JDict(ResumeCopyMetadata(ResumeFillStandard(s.nd, s.data), s.data)),
                  data |-> s.data]
        Education(s)  == NestedStep(s, EducationKeys, ResumeKey.Education)
        Experience(s) == NestedStep(s, ExperienceKeys, ResumeKey.Experience)
    IN  Finish(Education(Experience(
            [nd |-> ResumeMapFields(data), data |-> data, raised |-> FALSE])))

(***************************************************************************)
(* ResumeParsingBot._normalize_jd_fields                                   *)
(***************************************************************************)

\* the keys of a job-description record and of its RequiredSkills
JdKey ==
    [CompanyName                |-> <<"C","o","m","p","a","n","y","N","a","m","e">>,
     JobTitle                   |-> <<"J","o","b","T","i","t","l","e">>,
     JobLocation                |-> <<"J","o","b","L","o","c","a","t","i","o","n">>,
     RequiredSkills             |-> <<"R","e","q","u","i","r","e","d","S","k","i","l","l","s">>,
     YearsOfExperienceRequired  |-> <<"Y","e","a","r","s","O","f","E","x","p","e","r","i","e","n","c","e","R","e","q","u","i","r","e","d">>,
     EducationRequirements      |-> <<"E","d","u","c","a","t","i","o","n","R","e","q","u","i","r","e","m","e","n","t","s">>,
     CompanyTypePreference      |-> <<"C","o","m","p","a","n","y","T","y","p","e","P","r","e","f","e","r","e","n","c","e">>,
     BusinessTypePreference     |-> <<"B","u","s","i","n","e","s","s","T","y","p","e","P","r","e","f","e","r","e","n","c","e">>,
     PreferredStability         |-> <<"P","r","e","f","e","r","r","e","d","S","t","a","b","i","l","i","t","y">>,
     OtherImportantRequirements |-> <<"O","t","h","e","r","I","m","p","o","r","t","a","n","t","R","e","q","u","i","r","e","m","e","n","t","s">>,
     technical                  |-> <<"t","e","c","h","n","i","c","a","l">>,
     soft                       |-> <<"s","o","f","t">>]

\* field_mappings of _normalize_jd_fields, in the order of the dict literal
JdFieldMappings == <<
    KV(<<"c","o","m","p","a","n","y","_","n","a","m","e">>, JdKey.CompanyName),
    KV(<<"c","o","m","p","a","n","y">>, JdKey.CompanyName),
    KV(<<"e","m","p","l","o","y","e","r">>, JdKey.CompanyName),
    KV(<<"o","r","g","a","n","i","z","a","t","i","o","n">>, JdKey.CompanyName),
    KV(<<"j","o","b","_","t","i","t","l","e">>, JdKey.JobTitle),
    KV(<<"J","o","b"," ","t","i","t","l","e">>, JdKey.JobTitle),
    KV(<<"t","i","t","l","e">>, JdKey.JobTitle),
    KV(<<"p","o","s","i","t","i","o","n">>, JdKey.JobTitle),
    KV(<<"r","o","l","e">>, JdKey.JobTitle),
    KV(<<"j","o","b","_","l","o","c","a","t","i","o","n">>, JdKey.JobLocation),
    KV(<<"l","o","c","a","t","i","o","n">>, JdKey.JobLocation),
    KV(<<"w","o","r","k","_","l","o","c","a","t","i","o","n">>, JdKey.JobLocation),
    KV(<<"o","f","f","i","c","e","_","l","o","c","a","t","i","o","n">>, JdKey.JobLocation),
    KV(<<"w","o","r","k","p","l","a","c","e">>, JdKey.JobLocation),
    KV(<<"R","e","q","u","i","r","e","d"," ","s","k","i","l","l","s">>, JdKey.RequiredSkills),
    KV(<<"s","k","i","l","l","s">>, JdKey.RequiredSkills),
    KV(<<"r","e","q","u","i","r","e","d","_","s","k","i","l","l","s">>, JdKey.RequiredSkills),
    KV(<<"s","k","i","l","l","_","r","e","q","u","i","r","e","m","e","n","t","s">>, JdKey.RequiredSkills),
    KV(<<"t","e","c","h","n","i","c","a","l","_","s","k","i","l","l","s">>, JdKey.RequiredSkills),
    KV(<<"Y","e","a","r","s"," ","o","f"," ","e","x","p","e","r","i","e","n","c","e"," ","r","e","q","u","i","r","e","d">>, JdKey.YearsOfExperienceRequired),
    KV(<<"e","x","p","e","r","i","e","n","c","e">>, JdKey.YearsOfExperienceRequired),
    KV(<<"e","x","p","e","r","i","e","n","c","e","_","r","e","q","u","i","r","e","d">>, JdKey.YearsOfExperienceRequired),
    KV(<<"y","e","a","r","s","_","o","f","_","e","x","p","e","r","i","e","n","c","e">>, JdKey.YearsOfExperienceRequired),
    KV(<<"E","d","u","c","a","t","i","o","n"," ","r","e","q","u","i","r","e","m","e","n","t","s">>, JdKey.EducationRequirements),
    KV(<<"e","d","u","c","a","t","i","o","n">>, JdKey.EducationRequirements),
    KV(<<"e","d","u","c","a","t","i","o","n","_","r","e","q","u","i","r","e","m","e","n","t","s">>, JdKey.EducationRequirements),
    KV(<<"q","u","a","l","i","f","i","c","a","t","i","o","n">>, JdKey.EducationRequirements),
    KV(<<"C","o","m","p","a","n","y"," ","t","y","p","e"," ","p","r","e","f","e","r","e","n","c","e">>, JdKey.CompanyTypePreference),
    KV(<<"c","o","m","p","a","n","y","_","t","y","p","e">>, JdKey.CompanyTypePreference),
    KV(<<"c","o","m","p","a","n","y","_","t","y","p","e","_","p","r","e","f","e","r","e","n","c","e">>, JdKey.CompanyTypePreference),
    KV(<<"B","u","s","i","n","e","s","s"," ","t","y","p","e"," ","p","r","e","f","e","r","e","n","c","e">>, JdKey.BusinessTypePreference),
    KV(<<"b","u","s","i","n","e","s","s","_","t","y","p","e">>, JdKey.BusinessTypePreference),
    KV(<<"b","u","s","i","n","e","s","s","_","t","y","p","e","_","p","r","e","f","e","r","e","n","c","e">>, JdKey.BusinessTypePreference),
    KV(<<"P","r","e","f","e","r","r","e","d"," ","s","t","a","b","i","l","i","t","y">>, JdKey.PreferredStability),
    KV(<<"s","t","a","b","i","l","i","t","y">>, JdKey.PreferredStability),
    KV(<<"p","r","e","f","e","r","r","e","d","_","s","t","a","b","i","l","i","t","y">>, JdKey.PreferredStability),
    KV(<<"O","t","h","e","r"," ","i","m","p","o","r","t","a","n","t"," ","r","e","q","u","i","r","e","m","e","n","t","s">>, JdKey.OtherImportantRequirements),
    KV(<<"o","t","h","e","r","_","r","e","q","u","i","r","e","m","e","n","t","s">>, JdKey.OtherImportantRequirements),
    KV(<<"a","d","d","i","t","i","o","n","a","l","_","r","e","q","u","i","r","e","m","e","n","t","s">>, JdKey.OtherImportantRequirements),
    KV(<<"o","t","h","e","r">>, JdKey.OtherImportantRequirements) >>

\* possible_field.lower() of every table entry
JdLowerKeys == [i \in 1..Len(JdFieldMappings) |-> lower(JdFieldMappings[i].k)]

JdStandardFields ==
    <<JdKey.CompanyName, JdKey.JobTitle, JdKey.JobLocation, JdKey.RequiredSkills,
      JdKey.YearsOfExperienceRequired, JdKey.EducationRequirements, JdKey.CompanyTypePreference,
      JdKey.BusinessTypePreference, JdKey.PreferredStability, JdKey.OtherImportantRequirements>>

technical_indicators ==
    {<<"p","y","t","h","o","n">>,
     <<"j","a","v","a">>,
     <<"c","+","+">>,
     <<"m","a","c","h","i","n","e"," ","l","e","a","r","n","i","n","g">>,
     <<"d","a","t","a">>,
     <<"c","l","o","u","d">>,
     <<"d","a","t","a","b","a","s","e">>,
     <<"s","q","l">>,
     <<"n","o","s","q","l">>,
     <<"t","e","n","s","o","r","f","l","o","w">>,
     <<"p","y","t","o","r","c","h">>,
     <<"d","o","c","k","e","r">>,
     <<"k","u","b","e","r","n","e","t","e","s">>,
     <<"a","w","s">>,
     <<"g","c","p">>,
     <<"a","z","u","r","e">>,
     <<"p","r","o","g","r","a","m","m","i","n","g">>,
     <<"c","o","d","i","n","g">>,
     <<"d","e","v","e","l","o","p","m","e","n","t">>,
     <<"a","l","g","o","r","i","t","h","m">>,
     <<"d","e","e","p"," ","l","e","a","r","n","i","n","g">>,
     <<"n","l","p">>,
     <<"c","o","m","p","u","t","e","r"," ","v","i","s","i","o","n">>,
     <<"m","l","o","p","s">>,
     <<"d","e","v","o","p","s">>,
     <<"f","r","a","m","e","w","o","r","k">>}

\* LookupIgnoreCase comparing the lower-case field with the keys of the table
\* as they are written: a key written with a capital is never found
LookupLowerOnly(mappings, lower_keys, field) ==
    LET field_lower == lower(field)
        hits == {i \in 1..Len(mappings) : field_lower = mappings[i].k}
    IN  IF hits = {} THEN <<>>
        ELSE mappings[CHOOSE i \in hits : \A j \in hits : i <= j].v

\* the standard field of the first table entry that equals the field or equals
\* it ignoring case, <<>> for None
LookupIgnoreCase(mappings, lower_keys, field) ==
    LET field_lower == lower(field)
        hits == {i \in 1..Len(mappings) :
                    field = mappings[i].k \/ field_lower = lower_keys[i]}
    IN  IF hits = {} THEN <<>>
        ELSE mappings[CHOOSE i \in hits : \A j \in hits : i <= j].v

\* any(indicator in skill.lower() for indicator in technical_indicators)
is_technical(skill) ==
    LET skill_lower == lower(skill)
    IN  \E indicator \in technical_indicators : Contains(skill_lower, indicator)

\* the skills of a dict of buckets, flattened in bucket order: a list bucket is
\* extended, a str bucket appended, any other bucket dropped
FlattenSkills(value) ==
    LET Step(prev, i) ==
            LET skill_list == value[i].v
            IN  CASE IsList(skill_list) -> prev \o skill_list.l
                  [] IsStr(skill_list)  -> Append(prev, skill_list)
                  [] OTHER              -> prev
    IN  FoldRange(Step, <<>>, 1, Len(value))

\* {'technical': [...], 'soft': [...]} from a sequence of skills; skill.lower()
\* raises AttributeError on a skill that is not a str
ClassifySkills(skills) ==
    IF \E i \in 1..Len(skills) : ~IsStr(skills[i]) THEN Raised
    ELSE JDict(<<KV(JdKey.technical,
                    JList(SelectSeq(skills, LAMBDA sk : is_technical(sk.s)))),
                 KV(JdKey.soft,
                    JList(SelectSeq(skills, LAMBDA sk : ~is_technical(sk.s))))>>)

\* the value stored for a mapped field
JdFieldValue(normalized_field, value) ==
    IF normalized_field = JdKey.RequiredSkills /\ IsDict(value)
    THEN ClassifySkills(FlattenSkills(value.d))
    ELSE IF normalized_field = JdKey.RequiredSkills /\ IsList(value)
    THEN ClassifySkills(value.l)
    ELSE value

\* "Normalize the main fields"; [nd, raised]
JdMapFields(data) ==
    LET Step(prev, i) ==
            LET Store(field, normalized_field, stored) ==
                    IF prev.raised THEN prev
                    ELSE IF normalized_field = <<>>
                    THEN [prev EXCEPT !.nd = Put(prev.nd, field, data[i].v)]
                    ELSE IF stored = Raised THEN [prev EXCEPT !.raised = TRUE]
                    ELSE [prev EXCEPT !.nd = Put(prev.nd, normalized_field, stored)]
                Mapped(field, normalized_field) ==
                    Store(field, normalized_field, JdFieldValue(normalized_field, data[i].v))
            IN  Mapped(data[i].k, LookupIgnoreCase(JdFieldMappings, JdLowerKeys, data[i].k))
    IN  FoldRange(Step, [nd |-> <<>>, raised |-> FALSE], 1, Len(data))

\* JdFillStandard with the branch for RequiredSkills left out: a standard field
\* that is missing is filled unless it is RequiredSkills
JdFillStandardButSkills(nd) ==
    LET Step(prev, i) ==
            LET field == JdStandardFields[i]
            IN  IF HasKey(prev, field) \/ field = JdKey.RequiredSkills THEN prev
                ELSE IF field = JdKey.OtherImportantRequirements
                THEN Put(prev, field, JList(<<>>))
                ELSE Put(prev, field, JNull)
    IN  FoldRange(Step, nd, 1, Len(JdStandardFields))

\* "Ensure all standard fields exist"
JdFillStandard(nd) ==
    LET Step(prev, i) ==
            LET field == JdStandardFields[i]
            IN  IF HasKey(prev, field) THEN prev
                ELSE IF field = JdKey.RequiredSkills
                THEN Put(prev, field, JDict(<<KV(JdKey.technical, JList(<<>>)),
                                              KV(JdKey.soft, JList(<<>>))>>))
                ELSE IF field = JdKey.OtherImportantRequirements
                THEN Put(prev, field, JList(<<>>))
                ELSE Put(prev, field, JNull)
    IN  FoldRange(Step, nd, 1, Len(JdStandardFields))

\* "Copy any remaining metadata fields": the test against the table's keys
\* ignores case
JdCopyMetadata(nd, data) ==
    LET Step(prev, i) ==
            LET field == data[i].k
            IN  IF LookupIgnoreCase(JdFieldMappings, JdLowerKeys, field) = <<>> /\ ~HasKey(prev, field)
                THEN Put(prev, field, data[i].v)
                ELSE prev
    IN  FoldRange(Step, nd, 1, Len(data))

\* the call _normalize_jd_fields(data): val is the returned record (Raised when
\* the call raises) and data the raw object after the call
_normalize_jd_fields(data) ==
    LET Finish(s) ==
            IF s.raised THEN [val |-> Raised, data |-> data]
            ELSE [val |-> JDict(JdCopyMetadata(JdFillStandard(s.nd), data)), data |-> data]
    IN  Finish(JdMapFields(data))

(***************************************************************************)
(* ResumeParsingBot._normalize_match_analysis                              *)
(***************************************************************************)

\* the keys of a match-analysis record, of its CompanyAnalysis entries and
\* EducationAssessment, and of the reply of analyze_match
MatchKey ==
    [SuggestedRole         |-> <<"S","u","g","g","e","s","t","e","d","R","o","l","e">>,
     AIRating              |-> <<"A","I","R","a","t","i","n","g">>,
     ShouldBeShortlisted   |-> <<"S","h","o","u","l","d","B","e","S","h","o","r","t","l","i","s","t","e","d">>,
     CompanyTypeMatch      |-> <<"C","o","m","p","a","n","y","T","y","p","e","M","a","t","c","h">>,
     BusinessTypeMatch     |-> <<"B","u","s","i","n","e","s","s","T","y","p","e","M","a","t","c","h">>,
     CompanyAnalysis       |-> <<"C","o","m","p","a","n","y","A","n","a","l","y","s","i","s">>,
     EducationAssessment   |-> <<"E","d","u","c","a","t","i","o","n","A","s","s","e","s","s","m","e","n","t">>,
     MissingExpectations   |-> <<"M","i","s","s","i","n","g","E","x","p","e","c","t","a","t","i","o","n","s">>,
     OverallRecommendation |-> <<"O","v","e","r","a","l","l","R","e","c","o","m","m","e","n","d","a","t","i","o","n">>,
     AIShortlisted         |-> <<"A","I","S","h","o","r","t","l","i","s","t","e","d">>,
     InternalShortlisted   |-> <<"I","n","t","e","r","n","a","l","S","h","o","r","t","l","i","s","t","e","d">>,
     InterviewInProcess    |-> <<"I","n","t","e","r","v","i","e","w","I","n","P","r","o","c","e","s","s">>,
     FinalResult           |-> <<"F","i","n","a","l","R","e","s","u","l","t">>,
     CandidateJoined       |-> <<"C","a","n","d","i","d","a","t","e","J","o","i","n","e","d">>,
     IndustrySector        |-> <<"I","n","d","u","s","t","r","y","S","e","c","t","o","r">>,
     BusinessModel         |-> <<"B","u","s","i","n","e","s","s","M","o","d","e","l">>,
     NotableAchievements   |-> <<"N","o","t","a","b","l","e","A","c","h","i","e","v","e","m","e","n","t","s">>,
     UniversityAssessment  |-> <<"U","n","i","v","e","r","s","i","t","y","A","s","s","e","s","s","m","e","n","t">>,
     CourseRelevance       |-> <<"C","o","u","r","s","e","R","e","l","e","v","a","n","c","e">>,
     MatchScore            |-> <<"M","a","t","c","h","S","c","o","r","e">>,
     OverallRating         |-> <<"O","v","e","r","a","l","l","R","a","t","i","n","g">>,
     analysis_date         |-> <<"a","n","a","l","y","s","i","s","_","d","a","t","e">>,
     match_analysis        |-> <<"m","a","t","c","h","_","a","n","a","l","y","s","i","s">>,
     status                |-> <<"s","t","a","t","u","s">>,
     CompanyName           |-> <<"C","o","m","p","a","n","y","N","a","m","e">>,
     CompanyType           |-> <<"C","o","m","p","a","n","y","T","y","p","e">>,
     StabilityAssessment   |-> <<"S","t","a","b","i","l","i","t","y","A","s","s","e","s","s","m","e","n","t">>]

\* field_mappings of _normalize_match_analysis, in the order of the dict literal
MatchFieldMappings == <<
    KV(<<"1","."," ","S","u","g","g","e","s","t","e","d"," ","r","o","l","e"," ","f","o","r"," ","t","h","e"," ","c","a","n","d","i","d","a","t","e">>, MatchKey.SuggestedRole),
    KV(<<"S","u","g","g","e","s","t","e","d"," ","r","o","l","e">>, MatchKey.SuggestedRole),
    KV(<<"R","o","l","e"," ","s","u","g","g","e","s","t","i","o","n">>, MatchKey.SuggestedRole),
    KV(<<"B","e","s","t"," ","r","o","l","e">>, MatchKey.SuggestedRole),
    KV(<<"1","."," ","S","u","g","g","e","s","t","e","d"," ","r","o","l","e">>, MatchKey.SuggestedRole),
    KV(<<"s","u","g","g","e","s","t","e","d","_","r","o","l","e">>, MatchKey.SuggestedRole),
    KV(<<"2","."," ","M","a","t","c","h"," ","s","c","o","r","e">>, MatchKey.AIRating),
    KV(<<"M","a","t","c","h"," ","s","c","o","r","e">>, MatchKey.AIRating),
    KV(<<"S","c","o","r","e">>, MatchKey.AIRating),
    KV(<<"2","."," ","S","c","o","r","e">>, MatchKey.AIRating),
    KV(<<"m","a","t","c","h","_","s","c","o","r","e">>, MatchKey.AIRating),
    KV(<<"3","."," ","W","h","e","t","h","e","r"," ","t","h","e"," ","c","a","n","d","i","d","a","t","e"," ","s","h","o","u","l","d"," ","b","e"," ","s","h","o","r","t","l","i","s","t","e","d">>, MatchKey.ShouldBeShortlisted),
    KV(<<"S","h","o","u","l","d"," ","b","e"," ","s","h","o","r","t","l","i","s","t","e","d">>, MatchKey.ShouldBeShortlisted),
    KV(<<"S","h","o","r","t","l","i","s","t">>, MatchKey.ShouldBeShortlisted),
    KV(<<"3","."," ","S","h","o","r","t","l","i","s","t"," ","r","e","c","o","m","m","e","n","d","a","t","i","o","n">>, MatchKey.ShouldBeShortlisted),
    KV(<<"s","h","o","r","t","l","i","s","t","_","r","e","c","o","m","m","e","n","d","a","t","i","o","n">>, MatchKey.ShouldBeShortlisted),
    KV(<<"4","."," ","C","o","m","p","a","n","y"," ","t","y","p","e"," ","m","a","t","c","h">>, MatchKey.CompanyTypeMatch),
    KV(<<"C","o","m","p","a","n","y"," ","t","y","p","e"," ","m","a","t","c","h">>, MatchKey.CompanyTypeMatch),
    KV(<<"C","o","m","p","a","n","y"," ","m","a","t","c","h">>, MatchKey.CompanyTypeMatch),
    KV(<<"4","."," ","C","o","m","p","a","n","y"," ","m","a","t","c","h">>, MatchKey.CompanyTypeMatch),
    KV(<<"c","o","m","p","a","n","y","_","t","y","p","e","_","m","a","t","c","h">>, MatchKey.CompanyTypeMatch),
    KV(<<"5","."," ","B","u","s","i","n","e","s","s"," ","t","y","p","e"," ","m","a","t","c","h">>, MatchKey.BusinessTypeMatch),
    KV(<<"B","u","s","i","n","e","s","s"," ","t","y","p","e"," ","m","a","t","c","h">>, MatchKey.BusinessTypeMatch),
    KV(<<"B","u","s","i","n","e","s","s"," ","m","a","t","c","h">>, MatchKey.BusinessTypeMatch),
    KV(<<"5","."," ","B","u","s","i","n","e","s","s"," ","m","a","t","c","h">>, MatchKey.BusinessTypeMatch),
    KV(<<"b","u","s","i","n","e","s","s","_","t","y","p","e","_","m","a","t","c","h">>, MatchKey.BusinessTypeMatch),
    KV(<<"6","."," ","S","t","a","b","i","l","i","t","y"," ","a","s","s","e","s","s","m","e","n","t">>, MatchKey.StabilityAssessment),
    KV(<<"S","t","a","b","i","l","i","t","y"," ","a","s","s","e","s","s","m","e","n","t">>, MatchKey.StabilityAssessment),
    KV(<<"S","t","a","b","i","l","i","t","y">>, MatchKey.StabilityAssessment),
    KV(<<"6","."," ","S","t","a","b","i","l","i","t","y">>, MatchKey.StabilityAssessment),
    KV(<<"s","t","a","b","i","l","i","t","y","_","a","s","s","e","s","s","m","e","n","t">>, MatchKey.StabilityAssessment),
    KV(<<"7","."," ","A","n","a","l","y","s","i","s"," ","o","f"," ","e","a","c","h"," ","c","o","m","p","a","n","y"," ","i","n"," ","t","h","e"," ","c","a","n","d","i","d","a","t","e","'","s"," ","r","e","s","u","m","e">>, MatchKey.CompanyAnalysis),
    KV(<<"C","o","m","p","a","n","y"," ","a","n","a","l","y","s","i","s">>, MatchKey.CompanyAnalysis),
    KV(<<"A","n","a","l","y","s","i","s"," ","o","f"," ","c","o","m","p","a","n","i","e","s">>, MatchKey.CompanyAnalysis),
    KV(<<"7","."," ","C","o","m","p","a","n","y"," ","a","n","a","l","y","s","i","s">>, MatchKey.CompanyAnalysis),
    KV(<<"c","o","m","p","a","n","y","_","a","n","a","l","y","s","i","s">>, MatchKey.CompanyAnalysis),
    KV(<<"8","."," ","E","d","u","c","a","t","i","o","n"," ","a","s","s","e","s","s","m","e","n","t">>, MatchKey.EducationAssessment),
    KV(<<"E","d","u","c","a","t","i","o","n"," ","a","s","s","e","s","s","m","e","n","t">>, MatchKey.EducationAssessment),
    KV(<<"E","d","u","c","a","t","i","o","n">>, MatchKey.EducationAssessment),
    KV(<<"8","."," ","E","d","u","c","a","t","i","o","n">>, MatchKey.EducationAssessment),
    KV(<<"e","d","u","c","a","t","i","o","n","_","a","s","s","e","s","s","m","e","n","t">>, MatchKey.EducationAssessment),
    KV(<<"9","."," ","O","v","e","r","a","l","l"," ","r","a","t","i","n","g">>, MatchKey.AIRating),
    KV(<<"O","v","e","r","a","l","l"," ","r","a","t","i","n","g">>, MatchKey.AIRating),
    KV(<<"R","a","t","i","n","g">>, MatchKey.AIRating),
    KV(<<"9","."," ","R","a","t","i","n","g">>, MatchKey.AIRating),
    KV(<<"o","v","e","r","a","l","l","_","r","a","t","i","n","g">>, MatchKey.AIRating),
    KV(<<"1","0","."," ","A","n","y","t","h","i","n","g"," ","m","i","s","s","i","n","g"," ","a","s"," ","p","e","r"," ","e","x","p","e","c","t","a","t","i","o","n","s"," ","i","n"," ","t","h","e"," ","J","D">>, MatchKey.MissingExpectations),
    KV(<<"A","n","y","t","h","i","n","g"," ","m","i","s","s","i","n","g">>, MatchKey.MissingExpectations),
    KV(<<"M","i","s","s","i","n","g"," ","s","k","i","l","l","s">>, MatchKey.MissingExpectations),
    KV(<<"1","0","."," ","M","i","s","s","i","n","g"," ","s","k","i","l","l","s">>, MatchKey.MissingExpectations),
    KV(<<"m","i","s","s","i","n","g","_","e","x","p","e","c","t","a","t","i","o","n","s">>, MatchKey.MissingExpectations),
    KV(<<"1","1","."," ","O","v","e","r","a","l","l"," ","r","e","c","o","m","m","e","n","d","a","t","i","o","n">>, MatchKey.OverallRecommendation),
    KV(<<"O","v","e","r","a","l","l"," ","r","e","c","o","m","m","e","n","d","a","t","i","o","n">>, MatchKey.OverallRecommendation),
    KV(<<"R","e","c","o","m","m","e","n","d","a","t","i","o","n">>, MatchKey.OverallRecommendation),
    KV(<<"1","1","."," ","R","e","c","o","m","m","e","n","d","a","t","i","o","n">>, MatchKey.OverallRecommendation),
    KV(<<"o","v","e","r","a","l","l","_","r","e","c","o","m","m","e","n","d","a","t","i","o","n">>, MatchKey.OverallRecommendation),
    KV(<<"A","I","R","a","t","i","n","g">>, MatchKey.AIRating),
    KV(<<"A","I"," ","R","a","t","i","n","g">>, MatchKey.AIRating),
    KV(<<"A","I"," ","r","a","t","i","n","g">>, MatchKey.AIRating) >>

\* possible_field.lower() of every table entry
MatchLowerKeys == [i \in 1..Len(MatchFieldMappings) |-> lower(MatchFieldMappings[i].k)]

MatchStandardFields ==
    <<MatchKey.SuggestedRole, MatchKey.AIRating, MatchKey.ShouldBeShortlisted, MatchKey.CompanyTypeMatch,
      MatchKey.BusinessTypeMatch, MatchKey.StabilityAssessment, MatchKey.CompanyAnalysis,
      MatchKey.EducationAssessment, MatchKey.MissingExpectations, MatchKey.OverallRecommendation,
      MatchKey.AIShortlisted, MatchKey.InternalShortlisted, MatchKey.InterviewInProcess, MatchKey.FinalResult,
      MatchKey.CandidateJoined>>

\* the keys skipped as legacy rating fields, compared in lower case
LegacyRatingKeys == 
    {<<"m","a","t","c","h","s","c","o","r","e">>,
     <<"o","v","e","r","a","l","l","r","a","t","i","n","g">>}

\* "float(x) if x is not None else 0": ok is FALSE for ValueError / TypeError,
\* n is the number in tenths, v the Python value of the expression
RatingNumeric(x) ==
    LET OfFloat(r) == [ok |-> r.ok, n |-> r.n, v |-> JFlt(r.n)]
    IN  CASE x.t = "null"  -> [ok |-> TRUE, n |-> 0, v |-> JInt(0)]
          [] IsNumber(x)   -> [ok |-> TRUE, n |-> Tenths(x), v |-> JFlt(Tenths(x))]
          [] x.t = "str"   -> OfFloat(ParseFloat(x.s))
          [] OTHER         -> [ok |-> FALSE, n |-> 0, v |-> JNull]

\* MergeRating with min for max: the lower of the two ratings is kept
MergeRatingLower(existing_value, value) ==
    LET Lower(existing_numeric, new_numeric) ==
            IF ~existing_numeric.ok \/ ~new_numeric.ok THEN existing_value
            ELSE IF new_numeric.n < existing_numeric.n THEN new_numeric.v
            ELSE existing_numeric.v
    IN  Lower(RatingNumeric(existing_value), RatingNumeric(value))

\* the rating kept when a second rating key arrives: max(existing_numeric,
\* new_numeric), or the existing value when either conversion raises
MergeRating(existing_value, value) ==
    LET Higher(existing_numeric, new_numeric) ==
            IF ~existing_numeric.ok \/ ~new_numeric.ok THEN existing_value
            ELSE IF new_numeric.n > existing_numeric.n THEN new_numeric.v
            ELSE existing_numeric.v
    IN  Higher(RatingNumeric(existing_value), RatingNumeric(value))

\* "Normalize the main fields"
MatchMapFields(data) ==
    LET Step(prev, i) ==
            LET Store(field, value, normalized_field) ==
                    IF normalized_field # <<>>
                    THEN IF normalized_field = MatchKey.AIRating /\ HasKey(prev, MatchKey.AIRating)
                         THEN Put(prev, MatchKey.AIRating, MergeRating(Get(prev, MatchKey.AIRating), value))
                         ELSE Put(prev, normalized_field, value)
                    ELSE IF lower(field) \notin LegacyRatingKeys
                    THEN Put(prev, field, value)
                    ELSE prev
            IN  Store(data[i].k, data[i].v,
                      LookupIgnoreCase(MatchFieldMappings, MatchLowerKeys, data[i].k))
    IN  FoldRange(Step, <<>>, 1, Len(data))

\* the key a company-analysis field is stored under
CompanyFieldName(field) ==
    LET Name(field_lower) ==
          CASE field_lower \in
                   {<<"c","o","m","p","a","n","y","n","a","m","e">>,
                    <<"c","o","m","p","a","n","y"," ","n","a","m","e">>,
                    <<"c","o","m","p","a","n","y">>,
                    <<"n","a","m","e">>}
                 -> MatchKey.CompanyName
            [] field_lower \in
                   {<<"c","o","m","p","a","n","y"," ","t","y","p","e">>,
                    <<"t","y","p","e">>}
                 -> MatchKey.CompanyType
            [] field_lower \in
                   {<<"i","n","d","u","s","t","r","y"," ","s","e","c","t","o","r">>,
                    <<"i","n","d","u","s","t","r","y">>,
                    <<"s","e","c","t","o","r">>}
                 -> MatchKey.IndustrySector
            [] field_lower \in
                   {<<"b","u","s","i","n","e","s","s"," ","m","o","d","e","l">>,
                    <<"b","u","s","i","n","e","s","s">>,
                    <<"m","o","d","e","l">>}
                 -> MatchKey.BusinessModel
            [] field_lower \in
                   {<<"n","o","t","a","b","l","e"," ","a","c","h","i","e","v","e","m","e","n","t","s">>,
                    <<"a","c","h","i","e","v","e","m","e","n","t","s">>,
                    <<"a","c","c","o","m","p","l","i","s","h","m","e","n","t","s">>}
                 -> MatchKey.NotableAchievements
            [] OTHER -> field
    IN  Name(lower(field))

NormalizeCompanyEntry(company) ==
    LET Step(prev, i) ==
            Put(prev, CompanyFieldName(company[i].k), company[i].v)
    IN  FoldRange(Step, <<>>, 1, Len(company))

\* company.items() raises AttributeError on the first element that is not a dict
NormalizeCompanyList(l) ==
    IF \E i \in 1..Len(l) : ~IsDict(l[i]) THEN Raised
    ELSE JList([i \in 1..Len(l) |-> JDict(NormalizeCompanyEntry(l[i].d))])

\* the key an education-assessment field is stored under
AssessmentFieldName(field) ==
    LET Name(field_lower) ==
          CASE field_lower \in
                   {<<"c","o","l","l","e","g","e","/","u","n","i","v","e","r","s","i","t","y"," ","a","s","s","e","s","s","m","e","n","t">>,
                    <<"u","n","i","v","e","r","s","i","t","y"," ","a","s","s","e","s","s","m","e","n","t">>,
                    <<"c","o","l","l","e","g","e"," ","a","s","s","e","s","s","m","e","n","t">>}
                 -> MatchKey.UniversityAssessment
            [] field_lower \in
                   {<<"c","o","u","r","s","e"," ","r","e","l","e","v","a","n","c","e">>,
                    <<"d","e","g","r","e","e"," ","r","e","l","e","v","a","n","c","e">>,
                    <<"e","d","u","c","a","t","i","o","n"," ","r","e","l","e","v","a","n","c","e">>}
                 -> MatchKey.CourseRelevance
            [] OTHER -> field
    IN  Name(lower(field))

NormalizeEducationAssessment(nd) ==
    IF HasKey(nd, MatchKey.EducationAssessment) /\ IsDict(Get(nd, MatchKey.EducationAssessment))
    THEN LET edu == Get(nd, MatchKey.EducationAssessment).d
             Step(prev, i) ==
            Put(prev, AssessmentFieldName(edu[i].k), edu[i].v)
         IN  Put(nd, MatchKey.EducationAssessment, JDict(FoldRange(Step, <<>>, 1, Len(edu))))
    ELSE nd

\* the key of normalized_data a raw field is stored under in the main loop
MatchStoredName(field) ==
    LET Name(normalized_field) == IF normalized_field # <<>> THEN normalized_field ELSE field
    IN  Name(LookupIgnoreCase(MatchFieldMappings, MatchLowerKeys, field))

\* the company-analysis list is normalized in place: the list object stored in
\* normalized_data is the one the raw object holds (the last raw key stored as
\* CompanyAnalysis), so that raw entry changes with it
MatchNestedStep(nd, data) ==
    LET Store(nl, src) ==
            IF nl = Raised THEN [nd |-> nd, data |-> data, raised |-> TRUE]
            ELSE [nd     |-> Put(nd, MatchKey.CompanyAnalysis, nl),
                  data   |-> [data EXCEPT ![src] = KV(data[src].k, nl)],
                  raised |-> FALSE]
        Last(hits) == CHOOSE i \in hits : \A j \in hits : i >= j
    IN  IF HasKey(nd, MatchKey.CompanyAnalysis) /\ IsList(Get(nd, MatchKey.CompanyAnalysis))
        THEN Store(NormalizeCompanyList(Get(nd, MatchKey.CompanyAnalysis).l),
                   Last({i \in 1..Len(data) : MatchStoredName(data[i].k) = MatchKey.CompanyAnalysis}))
        ELSE [nd |-> nd, data |-> data, raised |-> FALSE]

\* "Ensure all standard fields exist with appropriate default values"
MatchFillStandard(nd) ==
    LET Step(prev, i) ==
            LET field == MatchStandardFields[i]
            IN  IF HasKey(prev, field) THEN prev
                ELSE IF field = MatchKey.AIRating THEN Put(prev, field, JInt(0))
                ELSE IF field = MatchKey.ShouldBeShortlisted THEN Put(prev, field, Literal.No)
                ELSE IF field = MatchKey.CompanyAnalysis THEN Put(prev, field, JList(<<>>))
                ELSE IF field = MatchKey.EducationAssessment
                THEN Put(prev, field,
                         JDict(<<KV(MatchKey.UniversityAssessment, Literal.NotProvided),
                                 KV(MatchKey.CourseRelevance, Literal.NotProvided)>>))
                ELSE IF field = MatchKey.MissingExpectations THEN Put(prev, field, JList(<<>>))
                ELSE Put(prev, field, Literal.NotProvided)
    IN  FoldRange(Step, nd, 1, Len(MatchStandardFields))

\* "Ensure numeric fields are actually numbers": int(x), else the first run of
\* digits of str(x), else 0
CoerceRating(x) ==
    LET FromRun(run) == IF run # <<>> THEN JInt(DigitsValue(run)) ELSE JInt(0)
        FromInt(r)   == IF r.ok THEN JInt(r.n) ELSE FromRun(FirstDigitRun(PyStr(x)))
    IN  IF IsNumber(x) THEN x
        ELSE IF IsStr(x) THEN FromInt(ParseInt(x.s))
        ELSE FromRun(FirstDigitRun(PyStr(x)))

MatchCoerceRating(nd) ==
    IF HasKey(nd, MatchKey.AIRating) THEN Put(nd, MatchKey.AIRating, CoerceRating(Get(nd, MatchKey.AIRating)))
    ELSE nd

\* "Remove MatchScore and OverallRating if they were added somehow"
MatchRemoveLegacy(nd) ==
    LET d1 == IF HasKey(nd, MatchKey.MatchScore) THEN Del(nd, MatchKey.MatchScore) ELSE nd
    IN  IF HasKey(d1, MatchKey.OverallRating) THEN Del(d1, MatchKey.OverallRating) ELSE d1

\* MatchCopyMetadata without the test that skips MatchScore and OverallRating
MatchCopyMetadataUnfiltered(nd, data) ==
    LET Step(prev, i) ==
            LET field == data[i].k
            IN  IF /\ LookupIgnoreCase(MatchFieldMappings, MatchLowerKeys, field) = <<>>
                   /\ ~HasKey(prev, field)
                THEN Put(prev, field, data[i].v)
                ELSE prev
    IN  FoldRange(Step, nd, 1, Len(data))

\* "Copy any remaining metadata fields"
MatchCopyMetadata(nd, data) ==
    LET Step(prev, i) ==
            LET field == data[i].k
            IN  IF /\ LookupIgnoreCase(MatchFieldMappings, MatchLowerKeys, field) = <<>>
                   /\ ~HasKey(prev, field)
                   /\ lower(field) \notin LegacyRatingKeys
                THEN Put(prev, field, data[i].v)
                ELSE prev
    IN  FoldRange(Step, nd, 1, Len(data))

\* MatchCanonicalShortlist without .lower(): the words are recognised only as
\* they are written in the lists
MatchCanonicalShortlistExact(nd) ==
    LET Canonical(value) ==
            IF value \in
                   {<<"y","e","s">>,
                    <<"t","r","u","e">>,
                    <<"1">>,
                    <<"y">>,
                    <<"r","e","c","o","m","m","e","n","d","e","d">>,
                    <<"s","t","r","o","n","g","l","y"," ","r","e","c","o","m","m","e","n","d","e","d">>}
            THEN Put(nd, MatchKey.ShouldBeShortlisted, Literal.Yes)
            ELSE IF value \in
                   {<<"n","o">>,
                    <<"f","a","l","s","e">>,
                    <<"0">>,
                    <<"n">>,
                    <<"n","o","t"," ","r","e","c","o","m","m","e","n","d","e","d">>}
            THEN Put(nd, MatchKey.ShouldBeShortlisted, Literal.No)
            ELSE nd
    IN  IF HasKey(nd, MatchKey.ShouldBeShortlisted)
        THEN Canonical((PyStr(Get(nd, MatchKey.ShouldBeShortlisted))))
        ELSE nd

\* "Ensure ShouldBeShortlisted is Yes/No"
MatchCanonicalShortlist(nd) ==
    LET Canonical(value) ==
            IF value \in
                   {<<"y","e","s">>,
                    <<"t","r","u","e">>,
                    <<"1">>,
                    <<"y">>,
                    <<"r","e","c","o","m","m","e","n","d","e","d">>,
                    <<"s","t","r","o","n","g","l","y"," ","r","e","c","o","m","m","e","n","d","e","d">>}
            THEN Put(nd, MatchKey.ShouldBeShortlisted, Literal.Yes)
            ELSE IF value \in
                   {<<"n","o">>,
                    <<"f","a","l","s","e">>,
                    <<"0">>,
                    <<"n">>,
                    <<"n","o","t"," ","r","e","c","o","m","m","e","n","d","e","d">>}
            THEN Put(nd, MatchKey.ShouldBeShortlisted, Literal.No)
            ELSE nd
    IN  IF HasKey(nd, MatchKey.ShouldBeShortlisted)
        THEN Canonical(lower(PyStr(Get(nd, MatchKey.ShouldBeShortlisted))))
        ELSE nd

\* the call _normalize_match_analysis(data): val is the returned record (Raised
\* when the call raises) and data the raw object after the call
_normalize_match_analysis(data) ==
    LET Finish(s) ==
            IF s.raised THEN [val |-> Raised, data |-> s.data]
            ELSE [val  |-> JDict(MatchCanonicalShortlist(MatchCopyMetadata(
                               MatchRemoveLegacy(MatchCoerceRating(MatchFillStandard(
                                   NormalizeEducationAssessment(s.nd)))),
                               s.data))),
                  data |-> s.data]
        Nested(nd) == Finish(MatchNestedStep(nd, data))
    IN  Nested(MatchMapFields(data))

(***************************************************************************)
(* ResumeParsingBot.analyze_match: the steps after the model's reply       *)
(***************************************************************************)

\* "Add AI status fields if not present", run on the normalized analysis
AddStatusFields(analysis) ==
    LET Rating(a) == Tenths(GetOr(a, MatchKey.AIRating, JInt(0)))
        WithRating(a) ==
            IF ~HasKey(a, MatchKey.AIRating) THEN Put(a, MatchKey.AIRating, JInt(0)) ELSE a
        WithAIShortlisted(a) ==
            IF ~HasKey(a, MatchKey.AIShortlisted)
            THEN Put(a, MatchKey.AIShortlisted, IF Rating(a) >= 70 THEN Literal.Yes ELSE Literal.No)
            ELSE a
        WithInternalShortlisted(a) ==
            IF ~HasKey(a, MatchKey.InternalShortlisted)
            THEN Put(a, MatchKey.InternalShortlisted, GetOr(a, MatchKey.ShouldBeShortlisted, Literal.No))
            ELSE a
        WithInterviewInProcess(a) ==
            IF ~HasKey(a, MatchKey.InterviewInProcess)
            THEN Put(a, MatchKey.InterviewInProcess, GetOr(a, MatchKey.ShouldBeShortlisted, Literal.No))
            ELSE a
        WithFinalResult(a) ==
            IF ~HasKey(a, MatchKey.FinalResult)
            THEN Put(a, MatchKey.FinalResult,
                     IF Rating(a) >= 80 THEN Literal.Selected
                     ELSE IF Rating(a) <= 40 THEN Literal.Rejected
                     ELSE Literal.Pending)
            ELSE a
        WithCandidateJoined(a) ==
            IF ~HasKey(a, MatchKey.CandidateJoined) THEN Put(a, MatchKey.CandidateJoined, Literal.Unknown) ELSE a
    IN  WithCandidateJoined(WithFinalResult(WithInterviewInProcess(
            WithInternalShortlisted(WithAIShortlisted(WithRating(analysis))))))

\* analyze_match when the model replied with the JSON object analysis and the
\* clock reads now: val is the result (an exception of the normalizer is caught
\* and answered with the error status), data the reply object after the call
analyze_match(analysis, now) ==
    LET Reply(n) ==
            IF n.val = Raised
            THEN [val |-> JDict(<<KV(MatchKey.status, Literal.error)>>), data |-> n.data]
            ELSE [val  |-> JDict(<<KV(MatchKey.match_analysis,
                                      JDict(Put(AddStatusFields(n.val.d), MatchKey.analysis_date, now))),
                                   KV(MatchKey.status, Literal.success)>>),
                  data |-> n.data]
    IN  Reply(_normalize_match_analysis(analysis))

(***************************************************************************)
(* datetime.datetime.strptime for the formats of                           *)
(* _calculate_years_between_dates                                          *)
(***************************************************************************)

\* a format is a sequence of tokens: a directive, " " for white space in the
\* format (the pattern \s+), or a literal character
date_formats == <<
    <<"%b", " ", "%Y">>,
    <<"%B", " ", "%Y">>,
    <<"%m", "/", "%Y">>,
    <<"%m", "-", "%Y">>,
    <<"%Y", "-", "%m">>,
    <<"%Y">>,
    <<"%m", "/", "%d", "/", "%Y">>,
    <<"%d", "/", "%m", "/", "%Y">>,
    <<"%Y", "-", "%m", "-", "%d">>,
    <<"%b", " ", "%d", ",", " ", "%Y">>,
    <<"%B", " ", "%d", ",", " ", "%Y">>,
    <<"%d", " ", "%b", " ", "%Y">>,
    <<"%d", " ", "%B", " ", "%Y">> >>

\* the locale's month names, lower case, January first
MonthNames == <<
    <<"j","a","n","u","a","r","y">>,
    <<"f","e","b","r","u","a","r","y">>,
    <<"m","a","r","c","h">>,
    <<"a","p","r","i","l">>,
    <<"m","a","y">>,
    <<"j","u","n","e">>,
    <<"j","u","l","y">>,
    <<"a","u","g","u","s","t">>,
    <<"s","e","p","t","e","m","b","e","r">>,
    <<"o","c","t","o","b","e","r">>,
    <<"n","o","v","e","m","b","e","r">>,
    <<"d","e","c","e","m","b","e","r">> >>

\* the alternatives of %B in the order of the pattern, longest names first
FullMonthOrder == <<9, 2, 11, 12, 1, 10, 8, 3, 4, 6, 7, 5>>

\* strftime("%b") of month m
MonthAbbrevTitle == <<
    <<"J","a","n">>,
    <<"F","e","b">>,
    <<"M","a","r">>,
    <<"A","p","r">>,
    <<"M","a","y">>,
    <<"J","u","n">>,
    <<"J","u","l">>,
    <<"A","u","g">>,
    <<"S","e","p">>,
    <<"O","c","t">>,
    <<"N","o","v">>,
    <<"D","e","c">> >>

IsLeap(y) == (y % 4 = 0) /\ ((y % 100 # 0) \/ (y % 400 = 0))

DaysInMonth(y, m) ==
    IF m = 2 THEN (IF IsLeap(y) THEN 29 ELSE 28)
    ELSE IF m \in {4, 6, 9, 11} THEN 30 ELSE 31

DaysBeforeMonth(y, m) ==
    LET cum == <<0, 31, 59, 90, 120, 151, 181, 212, 243, 273, 304, 334>>
    IN  cum[m] + (IF m > 2 /\ IsLeap(y) THEN 1 ELSE 0)

\* date(y, m, d).toordinal()
Ordinal(y, m, d) ==
    LET py == y - 1
    IN  365 * py + (py \div 4) - (py \div 100) + (py \div 400) + DaysBeforeMonth(y, m) + d

\* the alternatives of one token that match s at index pos, in the order the
\* pattern tries them: n characters consumed, f the field set, v its value
TokenMatches(s, pos, tok) ==
    LET at(j)  == IF j <= Len(s) THEN s[j] ELSE ""
        c1     == at(pos)
        c2     == at(pos + 1)
        two(a, b) == 10 * DigitVal(a) + DigitVal(b)
        alt(ok, n, f, v) == IF ok THEN <<[n |-> n, f |-> f, v |-> v]>> ELSE <<>>
        word(w) == pos + Len(w) - 1 <= Len(s) /\ lower(SubSeq(s, pos, pos + Len(w) - 1)) = w
        run    == {n \in 1..(Len(s) - pos + 1) : \A j \in pos..(pos + n - 1) : IsSpace(s[j])}
    IN  CASE tok = "%Y" ->
                alt(\A j \in pos..(pos + 3) : IsDigit(at(j)), 4, "y",
                    IF \A j \in pos..(pos + 3) : IsDigit(at(j))
                    THEN DigitsValue(SubSeq(s, pos, pos + 3)) ELSE 0)
          [] tok = "%m" ->
                alt(c1 = "1" /\ c2 \in {"0", "1", "2"}, 2, "m", 10 + DigitOf[c2])
                \o alt(c1 = "0" /\ IsDigit(c2) /\ c2 # "0", 2, "m", DigitOf[c2])
                \o alt(IsDigit(c1) /\ c1 # "0", 1, "m", DigitOf[c1])
          [] tok = "%d" ->
                alt(c1 = "3" /\ c2 \in {"0", "1"}, 2, "d", 30 + DigitOf[c2])
                \o alt(c1 \in {"1", "2"} /\ IsDigit(c2), 2, "d", 10 * DigitOf[c1] + DigitOf[c2])
                \o alt(c1 = "0" /\ IsDigit(c2) /\ c2 # "0", 2, "d", DigitOf[c2])
                \o alt(IsDigit(c1) /\ c1 # "0", 1, "d", DigitOf[c1])
                \o alt(c1 = " " /\ IsDigit(c2) /\ c2 # "0", 2, "d", DigitOf[c2])
          [] tok = "%b" ->
                LET hit == {m \in 1..12 : word(SubSeq(MonthNames[m], 1, 3))}
                IN  alt(hit # {}, 3, "m", CHOOSE m \in hit : TRUE)
          [] tok = "%B" ->
                LET hit == {i \in 1..12 : word(MonthNames[FullMonthOrder[i]])}
                    i   == CHOOSE i \in hit : \A j \in hit : i <= j
                IN  alt(hit # {}, Len(MonthNames[FullMonthOrder[i]]), "m", FullMonthOrder[i])
          [] tok = " " ->
                [k \in 1..Cardinality(run) |->
                    [n |-> Cardinality(run) + 1 - k, f |-> "", v |-> 0]]
          [] OTHER -> alt(c1 = tok, 1, "", 0)

\* the match of the tokens fmt[k..] at index pos of s: the first alternative of
\* fmt[k] after which the rest matches; end is the index after the match
RECURSIVE MatchFrom(_, _, _, _, _)
MatchFrom(s, pos, fmt, k, acc) ==
    LET Try(a) ==
            MatchFrom(s, pos + a.n, fmt, k + 1,
                      CASE a.f = "y" -> [acc EXCEPT !.y = a.v]
                        [] a.f = "m" -> [acc EXCEPT !.m = a.v]
                        [] a.f = "d" -> [acc EXCEPT !.d = a.v]
                        [] OTHER -> acc)
        FirstOf(alts, good) ==
            IF good = {} THEN [acc EXCEPT !.ok = FALSE]
            ELSE Try(alts[CHOOSE i \in good : \A j \in good : i <= j])
        Among(alts) == FirstOf(alts, {i \in 1..Len(alts) : Try(alts[i]).ok})
    IN  IF k > Len(fmt) THEN [acc EXCEPT !.ok = TRUE, !.end = pos]
        ELSE Among(TokenMatches(s, pos, fmt[k]))

\* datetime.datetime.strptime(v, fmt): ok is FALSE for the TypeError of a value
\* that is not a str and for the ValueError of no match, of unconverted data
\* and of a date that does not exist
strptime(v, fmt) ==
    LET Date(r) ==
            IF r.ok /\ r.end = Len(v.s) + 1 /\ r.y >= 1 /\ r.d <= DaysInMonth(r.y, r.m)
            THEN [ok |-> TRUE, ord |-> Ordinal(r.y, r.m, r.d)]
            ELSE [ok |-> FALSE, ord |-> 0]
    IN  IF ~IsStr(v) THEN [ok |-> FALSE, ord |-> 0]
        ELSE Date(MatchFrom(v.s, 1, fmt, 1,
                            [ok |-> FALSE, end |-> 0, y |-> 1900, m |-> 1, d |-> 1]))

\* the loop over date_formats: the first format that parses
ParseDate(v) ==
    LET FirstOf(parsed, good) ==
            IF good = {} THEN [ok |-> FALSE, ord |-> 0]
            ELSE parsed[CHOOSE i \in good : \A j \in good : i <= j]
        Among(parsed) == FirstOf(parsed, {i \in 1..Len(parsed) : parsed[i].ok})
    IN  Among([i \in 1..Len(date_formats) |-> strptime(v, date_formats[i])])

(***************************************************************************)
(* ResumeParsingBot._calculate_years_between_dates and                     *)
(* ResumeParsingBot._calculate_total_experience                            *)
(***************************************************************************)

\* int(''.join(filter(str.isdigit, v))): iterating a str gives its characters, a
\* list its elements, a dict its keys; str.isdigit raises TypeError on an
\* element that is not a str, as does iterating a value that is not iterable,
\* and int('') raises ValueError.  [ok |-> FALSE] stands for the exception.
YearDigits(v) ==
    LET Number(joined) ==
            IF joined = <<>> THEN [ok |-> FALSE, n |-> 0]
            ELSE [ok |-> TRUE, n |-> DigitsValue(joined)]
        Digits(items) ==
            IF \E i \in 1..Len(items) : ~IsStr(items[i]) THEN [ok |-> FALSE, n |-> 0]
            ELSE Number(FoldRange(LAMBDA prev, i : IF AllDigits(items[i].s)
                                                   THEN prev \o items[i].s ELSE prev,
                                  <<>>, 1, Len(items)))
    IN  CASE v.t = "str"  -> Digits([i \in 1..Len(v.s) |-> JStr(<<v.s[i]>>)])
          [] v.t = "list" -> Digits(v.l)
          [] v.t = "dict" -> Digits([i \in 1..Len(v.d) |-> JStr(v.d[i].k)])
          [] OTHER        -> [ok |-> FALSE, n |-> 0]

\* the value returned is days / 365.25 + years: days counts the days between
\* two parsed dates, years is the whole number of the years-only branch
_calculate_years_between_dates(start_date_str, end_date_str) ==
    LET Days(delta) == [days |-> IF delta > 0 THEN delta ELSE 0, years |-> 0]
        YearsOnly(start_year, end_year) ==
            IF /\ start_year.ok /\ end_year.ok
               /\ 1900 <= start_year.n /\ start_year.n <= 2100
               /\ 1900 <= end_year.n /\ end_year.n <= 2100
            THEN [days  |-> 0,
                  years |-> (IF end_year.n < start_year.n /\ end_year.n < 100
                             THEN end_year.n + 2000 ELSE end_year.n)
                            - (IF end_year.n < start_year.n /\ start_year.n < 100
                               THEN start_year.n + 2000 ELSE start_year.n)]
            ELSE [days |-> 0, years |-> 0]
        Between(start_date, end_date) ==
            IF ~start_date.ok \/ ~end_date.ok
            THEN YearsOnly(YearDigits(start_date_str), YearDigits(end_date_str))
            ELSE Days(end_date.ord - start_date.ord)
    IN  Between(ParseDate(start_date_str), ParseDate(end_date_str))

\* datetime.datetime.now().strftime("%b %Y") when the clock reads month now.m of
\* year now.y
NowMonthYear(now) == JStr(MonthAbbrevTitle[now.m] \o <<" ">> \o NatChars(now.y))

\* what one entry of the experience list does: "raise" when it raises
\* AttributeError, "skip" when the loop continues without adding
ExperienceEntry(exp, now) ==
    LET Entry(kind, y) == [kind |-> kind, days |-> y.days, years |-> y.years]
        Nothing == [days |-> 0, years |-> 0]
        Dates(start_date, end_date) ==
            IF ~Truthy(start_date) \/ ~Truthy(end_date) THEN Entry("skip", Nothing)
            ELSE IF ~IsStr(end_date) THEN Entry("raise", Nothing)
            ELSE Entry("add", _calculate_years_between_dates(
                                  start_date,
                                  IF lower(end_date.s) \in PresentWords
                                  THEN NowMonthYear(now) ELSE end_date))
        Duration(duration) ==
            IF ~Truthy(duration) \/ ~IsDict(duration) THEN Entry("skip", Nothing)
            ELSE Dates(GetOr(duration.d, ResumeKey.StartDate, JStr(<<>>)),
                       GetOr(duration.d, ResumeKey.EndDate, JStr(<<>>)))
    IN  IF ~IsDict(exp) THEN Entry("raise", Nothing)
        ELSE Duration(GetOr(exp.d, ResumeKey.Duration, JDict(<<>>)))

\* round(x, 1) in tenths for x = n / 1461; no such x lies halfway between two
\* tenths
RoundTenths(n) == (20 * n + 1461) \div 2922

\* the call _calculate_total_experience(experience_list) when the clock reads
\* now: a float in tenths, or Raised
_calculate_total_experience(experience_list, now) ==
    LET Total(entries) ==
            IF \E i \in 1..Len(entries) : entries[i].kind = "raise" THEN Raised
            ELSE JFlt(RoundTenths(FoldRange(
                     LAMBDA prev, i : prev + 4 * entries[i].days + 1461 * entries[i].years,
                     0, 1, Len(entries))))
    IN  IF ~Truthy(experience_list) \/ ~IsList(experience_list) THEN JFlt(0)
        ELSE Total([i \in 1..Len(experience_list.l) |->
                       ExperienceEntry(experience_list.l[i], now)])

(***************************************************************************)
(* ResumeParsingBot._enrich_experience_with_company_info                   *)
(***************************************************************************)

\* value is None or "Not specified" or "" or blank as a str
needs_enrichment(value) ==
    \/ value = JNull
    \/ value = Literal.NotSpecified
    \/ value = JStr(<<>>)
    \/ strip(PyStr(value)) = <<>>

\* "<<"B","2","C">>" in business_type, for a business type that is truthy: a substring of
\* a str, an element of a list, a key of a dict; TypeError otherwise
InBusinessType(business_type) ==
    CASE IsStr(business_type)  -> [ok |-> TRUE, in |-> Contains(business_type.s, <<"B","2","C">>)]
      [] IsList(business_type) -> [ok |-> TRUE, in |-> \E i \in 1..Len(business_type.l) : business_type.l[i] = JStr(<<"B","2","C">>)]
      [] IsDict(business_type) -> [ok |-> TRUE, in |-> HasKey(business_type.d, <<"B","2","C">>)]
      [] OTHER                 -> [ok |-> FALSE, in |-> FALSE]

\* the body of the loop for the entry exp when the lookup of its company gives
\* company_info: the enriched copy of the entry, Raised when a statement raises
EnrichEntry(exp, company_info) ==
    LET Needs(field) == needs_enrichment(GetOr(exp.d, field, JNull))
        Found(field) ==
            /\ Truthy(GetOr(company_info, field, JNull))
            /\ GetOr(company_info, field, JNull) # Literal.NotSpecified
        Backfill(prev, field) ==
            IF Needs(field) /\ Found(field) THEN Put(prev, field, Get(company_info, field))
            ELSE prev
        Force(prev, name_lower) ==
            IF /\ Contains(name_lower, <<"a","m","a","z","o","n">>)
               /\ GetOr(exp.d, ResumeKey.BusinessType, JNull) = JStr(<<"B","2","C">>)
            THEN Put(prev, ResumeKey.BusinessType, JStr(<<"B","2","C","/","B","2","B">>))
            ELSE prev
        FromBusiness(prev, has) ==
            IF has.in THEN Put(prev, ResumeKey.CompanyType, JStr(<<"P","r","o","d","u","c","t">>))
            ELSE Put(prev, ResumeKey.CompanyType, JStr(<<"S","e","r","v","i","c","e">>))
        Infer(prev, name_lower) ==
            IF ~Needs(ResumeKey.CompanyType) THEN prev
            ELSE IF Contains(name_lower, <<"a","m","a","z","o","n">>)
            THEN Put(prev, ResumeKey.CompanyType, JStr(<<"P","r","o","d","u","c","t">>))
            ELSE IF Contains(name_lower, <<"g","o","o","g","l","e">>) \/ Contains(name_lower, <<"m","i","c","r","o","s","o","f","t">>)
            THEN Put(prev, ResumeKey.CompanyType, JStr(<<"P","r","o","d","u","c","t">>))
            ELSE IF Truthy(GetOr(company_info, ResumeKey.BusinessType, JNull))
            THEN FromBusiness(prev, InBusinessType(Get(company_info, ResumeKey.BusinessType)))
            ELSE prev
        \* "B2C" in business_type raises TypeError
        InferRaises(name_lower) ==
            /\ Needs(ResumeKey.CompanyType)
            /\ ~Contains(name_lower, <<"a","m","a","z","o","n">>)
            /\ ~Contains(name_lower, <<"g","o","o","g","l","e">>)
            /\ ~Contains(name_lower, <<"m","i","c","r","o","s","o","f","t">>)
            /\ Truthy(GetOr(company_info, ResumeKey.BusinessType, JNull))
            /\ ~InBusinessType(Get(company_info, ResumeKey.BusinessType)).ok
        Update(company_name) ==
            \* company_name.lower() raises AttributeError on a name that is not a str
            IF ~IsStr(company_name) THEN Raised
            ELSE IF InferRaises(lower(company_name.s)) THEN Raised
            ELSE JDict(Force(Infer(Backfill(Backfill(Backfill(Backfill(exp.d,
                          ResumeKey.BusinessType), ResumeKey.NumberOfEmployees),
                          ResumeKey.CompanyRevenue), ResumeKey.Funding),
                          lower(company_name.s)), lower(company_name.s)))
        Entry(company_name) ==
            IF /\ Truthy(company_name)
               /\ \E field \in {ResumeKey.BusinessType, ResumeKey.NumberOfEmployees,
                                ResumeKey.CompanyRevenue, ResumeKey.Funding,
                                ResumeKey.CompanyType} : Needs(field)
            THEN Update(company_name)
            ELSE exp
    IN  \* exp.copy() and exp.get raise AttributeError on an entry that is not a dict
        IF ~IsDict(exp) THEN Raised
        ELSE Entry(GetOr(exp.d, ResumeKey.CompanyName, JStr(<<>>)))

\* the call _enrich_experience_with_company_info(experience_list) when
\* _fetch_company_info gives lookups[i] for the company of the i-th entry: the
\* list returned, Raised when the call raises
_enrich_experience_with_company_info(experience_list, lookups) ==
    LET Enriched(enriched_experience) ==
            IF \E i \in 1..Len(enriched_experience) : enriched_experience[i] = Raised
            THEN Raised
            ELSE JList(enriched_experience)
    IN  IF ~Truthy(experience_list) \/ ~IsList(experience_list) THEN experience_list
        ELSE Enriched([i \in 1..Len(experience_list.l) |->
                           EnrichEntry(experience_list.l[i], lookups[i])])

(***************************************************************************)
(* ResumeParsingBot._check_for_status_update, update_candidate_status and  *)
(* chat_message                                                            *)
(***************************************************************************)

\* the status_updates dict built from a chat message: the identifiers the
\* three regular expressions find first, then the commands
_check_for_status_update(message) ==
    LET message_lower == lower(message)
        n == Len(message)
        IsAlnum(c) == IsDigit(c) \/ IsLowerAlpha(c) \/ c \in DOMAIN LowerOf
        \* the index after the longest run of characters of a class from i on
        RunEnd(s, i, In(_)) ==
            LET stops == {j \in i..Len(s) : ~In(s[j])}
            IN  IF stops = {} THEN Len(s) + 1
                ELSE CHOOSE j \in stops : \A k \in stops : j <= k
        First(hits) == CHOOSE i \in hits : \A j \in hits : i <= j
        StartsAt(s, p, word) ==
            p + Len(word) - 1 <= Len(s) /\ SubSeq(s, p, p + Len(word) - 1) = word
        \* (?:shortlist|interview|select|reject|joined|onboard)\s+([A-Za-z\s]+)(?:\s*\(|,|$)
        verbs == {<<"s","h","o","r","t","l","i","s","t">>, <<"i","n","t","e","r","v","i","e","w">>, <<"s","e","l","e","c","t">>, <<"r","e","j","e","c","t">>, <<"j","o","i","n","e","d">>, <<"o","n","b","o","a","r","d">>}
        NameChar(c) == IsLowerAlpha(c) \/ IsSpace(c)
        NameEnds(q, e) ==
            /\ IsSpace(message_lower[q])
            /\ e - q >= 2
            /\ (e = n + 1 \/ message_lower[e] \in {"(", ","})
        NameFrom(q) == IF q <= n /\ NameEnds(q, RunEnd(message_lower, q, NameChar))
                       THEN RunEnd(message_lower, q, NameChar) ELSE 0
        AfterVerb(p) ==
            LET found == {word \in verbs : StartsAt(message_lower, p, word)}
            IN  IF found = {} THEN 0 ELSE p + Len(CHOOSE word \in found : TRUE)
        name_match == {p \in 1..n : AfterVerb(p) # 0 /\ NameFrom(AfterVerb(p)) # 0}
        Name(q) == strip(SubSeq(message_lower, q, NameFrom(q) - 1))
        \* ([a-zA-Z0-9_.+-]+@[a-zA-Z0-9-]+\.[a-zA-Z0-9-.]+)
        Local(c) == IsAlnum(c) \/ c \in {"_", ".", "+", "-"}
        Host(c) == IsAlnum(c) \/ c = "-"
        HostTail(c) == IsAlnum(c) \/ c \in {"-", "."}
        TailEnd(b, c) == IF c > b + 1 THEN c ELSE 0
        HostEnd(a, b) == IF b > a + 1 /\ b <= n /\ message[b] = "."
                         THEN TailEnd(b, RunEnd(message, b + 1, HostTail)) ELSE 0
        LocalEnd(i, a) == IF a > i /\ a <= n /\ message[a] = "@"
                          THEN HostEnd(a, RunEnd(message, a + 1, Host)) ELSE 0
        EmailEnd(i) == LocalEnd(i, RunEnd(message, i, Local))
        email_match == {i \in 1..n : EmailEnd(i) # 0}
        \* (\d{10}|\d{3}[-.\s]\d{3}[-.\s]\d{4}|\(\d{3}\)\s*\d{3}[-.\s]\d{4})
        Digits(i, k) == i + k - 1 <= n /\ \A j \in i..(i + k - 1) : IsDigit(message[j])
        Sep(i) == i <= n /\ (IsSpace(message[i]) \/ message[i] \in {"-", "."})
        Grouped(q) == IF Digits(q, 3) /\ Sep(q + 3) /\ Digits(q + 4, 4) THEN q + 8 ELSE 0
        PhoneEnd(p) ==
            IF Digits(p, 10) THEN p + 10
            ELSE IF Digits(p, 3) /\ Sep(p + 3) /\ Digits(p + 4, 3) /\ Sep(p + 7) /\ Digits(p + 8, 4)
            THEN p + 12
            ELSE IF message[p] = "(" /\ Digits(p + 1, 3) /\ p + 4 <= n /\ message[p + 4] = ")"
            THEN Grouped(RunEnd(message, p + 5, IsSpace))
            ELSE 0
        phone_match == {p \in 1..n : PhoneEnd(p) # 0}
        Said(phrase) == Contains(message_lower, phrase)
        WithName(u) ==
            IF name_match # {}
            THEN Put(u, <<"n","a","m","e">>, JStr(Name(AfterVerb(First(name_match))))) ELSE u
        WithEmail(u) ==
            IF email_match # {}
            THEN Put(u, <<"e","m","a","i","l">>, JStr(SubSeq(message, First(email_match), EmailEnd(First(email_match)) - 1)))
            ELSE u
        WithPhone(u) ==
            IF phone_match # {}
            THEN Put(u, <<"p","h","o","n","e">>, JStr(SubSeq(message, First(phone_match), PhoneEnd(First(phone_match)) - 1)))
            ELSE u
        WithShortlisted(u) ==
            IF Said(<<"s","h","o","r","t","l","i","s","t">>) /\ Said(<<"i","n","t","e","r","n","a","l">>)
            THEN Put(u, <<"i","n","t","e","r","n","a","l","_","s","h","o","r","t","l","i","s","t","e","d">>, JBool(TRUE)) ELSE u
        WithInterview(u) ==
            IF Said(<<"i","n","t","e","r","v","i","e","w"," ","p","r","o","c","e","s","s">>) \/ Said(<<"m","o","v","e"," ","t","o"," ","i","n","t","e","r","v","i","e","w">>) \/ Said(<<"s","t","a","r","t"," ","i","n","t","e","r","v","i","e","w">>)
            THEN Put(u, <<"i","n","t","e","r","v","i","e","w","_","i","n","_","p","r","o","c","e","s","s">>, JBool(TRUE)) ELSE u
        WithSelected(u) ==
            IF Said(<<"s","e","l","e","c","t">>) \/ Said(<<"o","f","f","e","r">>)
            THEN Put(u, <<"f","i","n","a","l","_","r","e","s","u","l","t">>, Literal.Selected) ELSE u
        WithRejected(u) ==
            IF Said(<<"r","e","j","e","c","t">>) THEN Put(u, <<"f","i","n","a","l","_","r","e","s","u","l","t">>, Literal.Rejected) ELSE u
        WithJoined(u) ==
            IF Said(<<"j","o","i","n","e","d">>) \/ Said(<<"o","n","b","o","a","r","d">>)
            THEN Put(u, <<"c","a","n","d","i","d","a","t","e","_","j","o","i","n","e","d">>, JBool(TRUE)) ELSE u
    IN  WithJoined(WithRejected(WithSelected(WithInterview(WithShortlisted(
            WithPhone(WithEmail(WithName(<<>>))))))))

\* update_candidate_status without the comparison of the name, the email
\* address and the phone number with the record
update_status_unverified(resume_data, update_info) ==
    LET Said(key) == Truthy(GetOr(update_info, key, JNull))
        WithShortlisted(u) ==
            IF Said(<<"i","n","t","e","r","n","a","l","_","s","h","o","r","t","l","i","s","t","e","d">>) THEN Put(u, <<"i","n","t","e","r","n","a","l","_","s","h","o","r","t","l","i","s","t","e","d">>, Literal.Yes) ELSE u
        WithInterview(u) ==
            IF Said(<<"i","n","t","e","r","v","i","e","w","_","i","n","_","p","r","o","c","e","s","s">>) THEN Put(u, <<"i","n","t","e","r","v","i","e","w","_","i","n","_","p","r","o","c","e","s","s">>, Literal.Yes) ELSE u
        WithResult(u) ==
            IF Said(<<"f","i","n","a","l","_","r","e","s","u","l","t">>) THEN Put(u, <<"f","i","n","a","l","_","r","e","s","u","l","t">>, Get(update_info, <<"f","i","n","a","l","_","r","e","s","u","l","t">>)) ELSE u
        WithJoined(u) ==
            IF Said(<<"c","a","n","d","i","d","a","t","e","_","j","o","i","n","e","d">>) THEN Put(u, <<"c","a","n","d","i","d","a","t","e","_","j","o","i","n","e","d">>, Literal.Yes) ELSE u
        Error(message) ==
            JDict(<<KV(<<"s","t","a","t","u","s">>, Literal.error), KV(<<"m","e","s","s","a","g","e">>, JStr(message))>>)
    IN  IF ~Truthy(resume_data) THEN Error(<<"N","o"," ","r","e","s","u","m","e"," ","d","a","t","a"," ","p","r","o","v","i","d","e","d">>)
        ELSE JDict(<<KV(<<"s","t","a","t","u","s">>, Literal.success),
                     KV(<<"m","e","s","s","a","g","e">>, JStr(<<"C","a","n","d","i","d","a","t","e"," ","s","t","a","t","u","s"," ","u","p","d","a","t","e","d">>)),
                     KV(<<"u","p","d","a","t","e","d","_","r","e","s","u","m","e","_","d","a","t","a">>,
                        JDict(WithJoined(WithResult(WithInterview(WithShortlisted(resume_data.d))))))>>)

\* the result of update_candidate_status, Raised when a stored identifier
\* that is compared is not a string.  The updates are made on a copy
\* (resume_data.copy()): resume_data itself is left as it was
update_candidate_status(resume_data, update_info) ==
    LET Said(key) == Truthy(GetOr(update_info, key, JNull))
        Stored(key) == GetOr(resume_data.d, key, JStr(<<>>))
        Differs(key, field) ==
            Said(key) /\ lower(Get(update_info, key).s) # lower(Stored(field).s)
        Breaks(key, field) == Said(key) /\ ~IsStr(Stored(field))
        WithShortlisted(u) ==
            IF Said(<<"i","n","t","e","r","n","a","l","_","s","h","o","r","t","l","i","s","t","e","d">>) THEN Put(u, <<"i","n","t","e","r","n","a","l","_","s","h","o","r","t","l","i","s","t","e","d">>, Literal.Yes) ELSE u
        WithInterview(u) ==
            IF Said(<<"i","n","t","e","r","v","i","e","w","_","i","n","_","p","r","o","c","e","s","s">>) THEN Put(u, <<"i","n","t","e","r","v","i","e","w","_","i","n","_","p","r","o","c","e","s","s">>, Literal.Yes) ELSE u
        WithResult(u) ==
            IF Said(<<"f","i","n","a","l","_","r","e","s","u","l","t">>) THEN Put(u, <<"f","i","n","a","l","_","r","e","s","u","l","t">>, Get(update_info, <<"f","i","n","a","l","_","r","e","s","u","l","t">>)) ELSE u
        WithJoined(u) ==
            IF Said(<<"c","a","n","d","i","d","a","t","e","_","j","o","i","n","e","d">>) THEN Put(u, <<"c","a","n","d","i","d","a","t","e","_","j","o","i","n","e","d">>, Literal.Yes) ELSE u
        Error(message) ==
            JDict(<<KV(<<"s","t","a","t","u","s">>, Literal.error), KV(<<"m","e","s","s","a","g","e">>, JStr(message))>>)
    IN  IF ~Truthy(resume_data) THEN Error(<<"N","o"," ","r","e","s","u","m","e"," ","d","a","t","a"," ","p","r","o","v","i","d","e","d">>)
        ELSE IF Breaks(<<"n","a","m","e">>, ResumeKey.CandidateFullName) THEN Raised
        ELSE IF Differs(<<"n","a","m","e">>, ResumeKey.CandidateFullName)
        THEN Error(<<"C","a","n","d","i","d","a","t","e"," ","i","n","f","o","r","m","a","t","i","o","n"," ","d","o","e","s","n","'","t"," ","m","a","t","c","h">>)
        ELSE IF Breaks(<<"e","m","a","i","l">>, ResumeKey.EmailAddress) THEN Raised
        ELSE IF Differs(<<"e","m","a","i","l">>, ResumeKey.EmailAddress)
        THEN Error(<<"C","a","n","d","i","d","a","t","e"," ","i","n","f","o","r","m","a","t","i","o","n"," ","d","o","e","s","n","'","t"," ","m","a","t","c","h">>)
        ELSE IF Said(<<"p","h","o","n","e">>) /\ Get(update_info, <<"p","h","o","n","e">>) # Stored(ResumeKey.PhoneNumber)
        THEN Error(<<"C","a","n","d","i","d","a","t","e"," ","i","n","f","o","r","m","a","t","i","o","n"," ","d","o","e","s","n","'","t"," ","m","a","t","c","h">>)
        ELSE JDict(<<KV(<<"s","t","a","t","u","s">>, Literal.success),
                     KV(<<"m","e","s","s","a","g","e">>, JStr(<<"C","a","n","d","i","d","a","t","e"," ","s","t","a","t","u","s"," ","u","p","d","a","t","e","d">>)),
                     KV(<<"u","p","d","a","t","e","d","_","r","e","s","u","m","e","_","d","a","t","a">>,
                        JDict(WithJoined(WithResult(WithInterview(WithShortlisted(resume_data.d))))))>>)

\* the result of chat_message, Raised when update_candidate_status raised.
\* completed tells whether openai.chat.completions.create returned; the text
\* of the reply and the token usage are left out of the result
chat_message(resume_data, jd_data, analysis_data, user_message, completed) ==
    LET Reply(status_update, updated) ==
            IF completed
            THEN JDict(<<KV(<<"r","e","s","p","o","n","s","e">>, JStr(<<"o","k">>)),
                         KV(<<"u","p","d","a","t","e","d","_","r","e","s","u","m","e","_","d","a","t","a">>, IF status_update # <<>> THEN updated ELSE JNull),
                         KV(<<"s","t","a","t","u","s">>, Literal.success)>>)
            ELSE JDict(<<KV(<<"s","t","a","t","u","s">>, Literal.error),
                         KV(<<"m","e","s","s","a","g","e">>, JStr(<<"I","'","m"," ","h","a","v","i","n","g"," ","t","r","o","u","b","l","e"," ","p","r","o","c","e","s","s","i","n","g"," ","y","o","u","r"," ","r","e","q","u","e","s","t">>))>>)
        Updated(status_update, update_result) ==
            IF update_result = Raised THEN Raised
            ELSE Reply(status_update, GetOr(update_result.d, <<"u","p","d","a","t","e","d","_","r","e","s","u","m","e","_","d","a","t","a">>, resume_data))
        Checked(status_update) ==
            IF status_update # <<>>
            THEN Updated(status_update, update_candidate_status(resume_data, status_update))
            ELSE Reply(status_update, resume_data)
    IN  Checked(_check_for_status_update(user_message))

(***************************************************************************)
(* The state machine: one request to the bot.  The model's reply has been  *)
(* parsed by json.loads; the operation normalizes it, and a record that    *)
(* was returned may be normalized again.                                   *)
(***************************************************************************)

\* the largest number of keys of a reply
MaxKeys == 3

\* the largest number of entries of an experience list
MaxEntries == 2

\* key/value pairs a parsed resume reply is made of
ResumeReplyEntries == {
    KV(<<"N","a","m","e">>,
       JStr(<<"A">>)),
    KV(<<"C","a","n","d","i","d","a","t","e","F","u","l","l","N","a","m","e">>,
       JStr(<<"B">>)),
    KV(<<"E","x","p","e","r","i","e","n","c","e">>,
       JList(<<JDict(<<KV(<<"c","o","m","p","a","n","y">>, JStr(<<"A","c","m","e">>))>>)>>)),
    KV(<<"E","x","p","e","r","i","e","n","c","e">>,
       JList(<<JDict(<<KV(<<"C","o","m","p","a","n","y">>, JStr(<<"A","c","m","e">>)), KV(<<"D","u","r","a","t","i","o","n">>, JStr(<<"J","a","n"," ","2","0","1","9"," ","-"," ","P","r","e","s","e","n","t">>))>>)>>)),
    KV(<<"E","x","p","e","r","i","e","n","c","e">>,
       JList(<<JStr(<<"x">>)>>)),
    KV(<<"w","o","r","k","_","h","i","s","t","o","r","y">>,
       JList(<<JDict(<<KV(<<"r","o","l","e">>, JStr(<<"D","e","v">>)), KV(<<"p","e","r","i","o","d">>, JDict(<<KV(<<"s","t","a","r","t">>, JStr(<<"2","0","1","9">>))>>))>>)>>)),
    KV(<<"E","d","u","c","a","t","i","o","n">>,
       JList(<<JDict(<<KV(<<"d","e","g","r","e","e">>, JStr(<<"B","S","c">>))>>)>>)),
    KV(<<"r","e","s","u","m","e","_","f","i","l","e">>,
       JStr(<<"c","v",".","p","d","f">>)) }

\* key/value pairs a parsed job-description reply is made of
JdReplyEntries == {
    KV(<<"R","e","q","u","i","r","e","d","S","k","i","l","l","s">>,
       JList(<<JStr(<<"P","y","t","h","o","n">>)>>)),
    KV(<<"R","e","q","u","i","r","e","d","S","k","i","l","l","s">>,
       JDict(<<KV(<<"t","e","c","h","n","i","c","a","l">>, JList(<<JStr(<<"P","y","t","h","o","n">>)>>)), KV(<<"s","o","f","t">>, JList(<<>>))>>)),
    KV(<<"s","k","i","l","l","s">>,
       JList(<<JStr(<<"P","y","t","h","o","n">>), JStr(<<"T","e","a","m","w","o","r","k">>)>>)),
    KV(<<"s","k","i","l","l","s">>,
       JStr(<<"P","y","t","h","o","n">>)),
    KV(<<"s","k","i","l","l","s">>,
       JNull),
    KV(<<"s","k","i","l","l","s">>,
       JList(<<JInt(1)>>)),
    KV(<<"R","e","q","u","i","r","e","d"," ","s","k","i","l","l","s">>,
       JDict(<<KV(<<"m","u","s","t">>, JList(<<JStr(<<"J","a","v","a">>)>>)), KV(<<"n","i","c","e">>, JStr(<<"A","g","i","l","e">>))>>)),
    KV(<<"J","o","b"," ","T","i","t","l","e">>,
       JStr(<<"D","e","v">>)),
    KV(<<"j","d","_","f","i","l","e">>,
       JStr(<<"j","d",".","p","d","f">>)) }

\* key/value pairs a parsed match-analysis reply is made of
MatchReplyEntries == {
    KV(<<"M","a","t","c","h"," ","s","c","o","r","e">>,
       JInt(6)),
    KV(<<"M","a","t","c","h"," ","s","c","o","r","e">>,
       JStr(<<"7"," ","o","u","t"," ","o","f"," ","1","0">>)),
    KV(<<"O","v","e","r","a","l","l"," ","r","a","t","i","n","g">>,
       JInt(9)),
    KV(<<"O","v","e","r","a","l","l"," ","r","a","t","i","n","g">>,
       JStr(<<"h","i","g","h">>)),
    KV(<<"R","a","t","i","n","g">>,
       JStr(<<"8">>)),
    KV(<<"M","a","t","c","h","S","c","o","r","e">>,
       JInt(5)),
    KV(<<"O","v","e","r","a","l","l","R","a","t","i","n","g">>,
       JInt(3)),
    KV(<<"C","o","m","p","a","n","y","A","n","a","l","y","s","i","s">>,
       JList(<<JInt(1)>>)),
    KV(<<"C","o","m","p","a","n","y","A","n","a","l","y","s","i","s">>,
       JList(<<JDict(<<KV(<<"n","a","m","e">>, JStr(<<"A","c","m","e">>))>>)>>)),
    KV(<<"A","I","S","h","o","r","t","l","i","s","t","e","d">>,
       JStr(<<"N","o">>)) }

\* the date values of an experience entry
DateValues == {
    JStr(<<"J","a","n"," ","2","0","2","0">>),
    JStr(<<"Y","e","a","r"," ","2","0","1","8">>),
    JStr(<<"P","r","e","s","e","n","t">>),
    JInt(2020),
    JStr(<<"n","/","a">>) }

\* the entries of an experience list: a Duration with both dates, an entry
\* without Duration, and an element that is not an object
ExperienceEntries ==
    {JDict(<<KV(ResumeKey.Duration, JDict(<<KV(ResumeKey.StartDate, s), KV(ResumeKey.EndDate, e)>>))>>) :
        s \in DateValues, e \in DateValues}
    \cup {JDict(<<KV(<<"C","o","m","p","a","n","y","N","a","m","e">>, JStr(<<"A","c","m","e">>))>>),
          JStr(<<"x">>)}

\* the JSON objects of at most n keys, keys in any order, made of pool
RECURSIVE ObjectsOfLen(_, _)
ObjectsOfLen(pool, n) ==
    IF n = 0 THEN {<<>>}
    ELSE UNION {{Append(o, e) : e \in {x \in pool : ~HasKey(o, x.k)}} :
                    o \in ObjectsOfLen(pool, n - 1)}

Objects(pool, n) == UNION {ObjectsOfLen(pool, k) : k \in 0..n}

RECURSIVE ListsOfLen(_, _)
ListsOfLen(pool, n) ==
    IF n = 0 THEN {<<>>}
    ELSE {Append(l, e) : l \in ListsOfLen(pool, n - 1), e \in pool}

\* the values _calculate_total_experience is called with
ExperienceLists ==
    {JList(l) : l \in UNION {ListsOfLen(ExperienceEntries, k) : k \in 0..MaxEntries}}
    \cup {JNull, JStr(<<"n","/","a">>)}

\* readings of datetime.datetime.now()
Clocks == {[y |-> 2024, m |-> 3, d |-> 17, H |-> 10, M |-> 30, S |-> 0],
           [y |-> 2026, m |-> 11, d |-> 4, H |-> 9, M |-> 5, S |-> 59]}

TwoDigits(n) == <<DigitChars[(n \div 10) + 1], DigitChars[(n % 10) + 1]>>

\* now.strftime("%Y-%m-%d %H:%M:%S")
Timestamp(now) ==
    JStr(NatChars(now.y) \o <<"-">> \o TwoDigits(now.m) \o <<"-">> \o TwoDigits(now.d)
         \o <<" ">> \o TwoDigits(now.H) \o <<":">> \o TwoDigits(now.M)
         \o <<":">> \o TwoDigits(now.S))

VARIABLES
    op,      \* the operation requested
    raw,     \* the parsed reply as json.loads returned it
    data,    \* the same object as the operation leaves it
    clock,   \* the reading of the clock the operation took
    result,  \* what the operation returned, Raised when it raised
    again,   \* what normalizing the returned record once more returned
    pc,      \* "reply", then "returned", then "renormalized"
    files,     \* the three session files of data_storage
    handlers,  \* the request each server process is handling, with its locals
    workers,   \* the number of server processes that share data_storage
    served     \* the number of requests received so far

vars == <<op, raw, data, clock, result, again, pc, files, handlers, workers, served>>

Replies(o) ==
    CASE o = "resume"     -> {JDict(r) : r \in Objects(ResumeReplyEntries, MaxKeys)}
      [] o = "jd"         -> {JDict(r) : r \in Objects(JdReplyEntries, MaxKeys)}
      [] o = "match"      -> {JDict(r) : r \in Objects(MatchReplyEntries, MaxKeys)}
      [] o = "analyze"    -> {JDict(r) : r \in Objects(MatchReplyEntries, MaxKeys)}
      [] o = "experience" -> ExperienceLists

Init ==
    /\ op \in {"resume", "jd", "match", "analyze", "experience"}
    /\ raw \in Replies(op)
    /\ data = raw
    /\ clock = [y |-> 0, m |-> 0, d |-> 0, H |-> 0, M |-> 0, S |-> 0]
    /\ result = JNull
    /\ again = JNull
    /\ pc = "reply"
    /\ files = [resume |-> <<>>, jd |-> <<>>, analysis |-> <<>>]
    /\ handlers = <<>>
    /\ workers = 0
    /\ served = 0

\* parsed_data = self._normalize_resume_fields(parsed_data)
NormalizeResume ==
    /\ pc = "reply" /\ op = "resume"
    /\ LET Return(r) == result' = r.val /\ data' = JDict(r.data)
       IN  Return(_normalize_resume_fields(data.d))
    /\ pc' = "returned"
    /\ UNCHANGED <<op, raw, clock, again>>
    /\ UNCHANGED <<files, handlers, workers, served>>

\* parsed_data = self._normalize_jd_fields(parsed_data)
NormalizeJd ==
    /\ pc = "reply" /\ op = "jd"
    /\ LET Return(r) == result' = r.val /\ data' = JDict(r.data)
       IN  Return(_normalize_jd_fields(data.d))
    /\ pc' = "returned"
    /\ UNCHANGED <<op, raw, clock, again>>
    /\ UNCHANGED <<files, handlers, workers, served>>

\* analysis = self._normalize_match_analysis(analysis)
NormalizeMatch ==
    /\ pc = "reply" /\ op = "match"
    /\ LET Return(r) == result' = r.val /\ data' = JDict(r.data)
       IN  Return(_normalize_match_analysis(data.d))
    /\ pc' = "returned"
    /\ UNCHANGED <<op, raw, clock, again>>
    /\ UNCHANGED <<files, handlers, workers, served>>

\* the normalizer of the record type applied to a record it returned
Renormalize ==
    /\ pc = "returned" /\ op \in {"resume", "jd", "match"} /\ result # Raised
    /\ again' = CASE op = "resume" -> _normalize_resume_fields(result.d).val
                  [] op = "jd"     -> _normalize_jd_fields(result.d).val
                  [] op = "match"  -> _normalize_match_analysis(result.d).val
    /\ pc' = "renormalized"
    /\ UNCHANGED <<op, raw, data, clock, result>>
    /\ UNCHANGED <<files, handlers, workers, served>>

\* analyze_match from the parsed reply on
AnalyzeMatch ==
    /\ pc = "reply" /\ op = "analyze"
    /\ \E now \in Clocks :
          LET Return(r) == result' = r.val /\ data' = JDict(r.data)
          IN  clock' = now /\ Return(analyze_match(data.d, Timestamp(now)))
    /\ pc' = "returned"
    /\ UNCHANGED <<op, raw, again>>
    /\ UNCHANGED <<files, handlers, workers, served>>

\* total_experience = self._calculate_total_experience(...)
CalculateTotalExperience ==
    /\ pc = "reply" /\ op = "experience"
    /\ \E now \in Clocks :
          /\ clock' = now
          /\ result' = _calculate_total_experience(data, now)
    /\ pc' = "returned"
    /\ UNCHANGED <<op, raw, data, again>>
    /\ UNCHANGED <<files, handlers, workers, served>>

Next ==
    \/ NormalizeResume
    \/ NormalizeJd
    \/ NormalizeMatch
    \/ Renormalize
    \/ AnalyzeMatch
    \/ CalculateTotalExperience

Spec == Init /\ [][Next]_vars

(***************************************************************************)
(* Replies of a single field.  The reply has one key, a key of the        *)
(* record type's table of field names or one of its standard fields, so   *)
(* that what the normalizer does to the value of each field shows alone.  *)
(***************************************************************************)

\* the values the field of a single-field reply holds
FieldValues == {
    JStr(<<"v">>),
    JInt(7),
    JInt(85),
    JFlt(75),
    JStr(<<"7"," ","o","u","t"," ","o","f"," ","1","0">>),
    JStr(<<"8">>),
    JNull,
    JBool(TRUE),
    JInt(1),
    JStr(<<"y","e","s">>),
    JStr(<<"T","R","U","E">>),
    JStr(<<"M","a","y","b","e">>),
    JStr(<<"N","o","t"," ","R","e","c","o","m","m","e","n","d","e","d">>),
    JStr(<<"n">>),
    JList(<<JStr(<<"P","y","t","h","o","n">>), JStr(<<"C","o","m","m","u","n","i","c","a","t","i","o","n">>)>>),
    JDict(<<KV(<<"m","u","s","t">>, JList(<<JStr(<<"J","a","v","a">>)>>)), KV(<<"n","i","c","e">>, JStr(<<"A","g","i","l","e">>))>>),
    JList(<<JDict(<<KV(<<"n","a","m","e">>, JStr(<<"A","c","m","e">>))>>)>>),
    JList(<<JInt(1)>>) }

\* the keys of a single-field reply: every key of the table, every standard
\* field
FieldKeys(o) ==
    LET Of(mappings, standard) ==
            {mappings[i].k : i \in 1..Len(mappings)} \cup {standard[i] : i \in 1..Len(standard)}
    IN  CASE o = "resume" -> Of(ResumeFieldMappings, ResumeStandardFields)
          [] o = "jd"     -> Of(JdFieldMappings, JdStandardFields)
          [] o = "match"  -> Of(MatchFieldMappings, MatchStandardFields)

FieldInit ==
    /\ op \in {"resume", "jd", "match"}
    /\ raw \in {JDict(<<KV(k, v)>>) : k \in FieldKeys(op), v \in FieldValues}
    /\ data = raw
    /\ clock = [y |-> 0, m |-> 0, d |-> 0, H |-> 0, M |-> 0, S |-> 0]
    /\ result = JNull
    /\ again = JNull
    /\ pc = "reply"
    /\ files = [resume |-> <<>>, jd |-> <<>>, analysis |-> <<>>]
    /\ handlers = <<>>
    /\ workers = 0
    /\ served = 0

FieldNext ==
    \/ NormalizeResume
    \/ NormalizeJd
    \/ NormalizeMatch

FieldSpec == FieldInit /\ [][FieldNext]_vars

(***************************************************************************)
(* _parse_duration called on a value by itself.                            *)
(***************************************************************************)

\* the text before the separator, the separator, the text after it
DurationStarts == {
    <<"J","a","n"," ","2","0","2","0">>,
    <<"2","0","1","8">>,
    <<"M","a","r","-","2","0","1","9">>,
    <<"0","5","-","2","0","1","9">>,
    <<>> }

DurationSeparators == {
    <<" ","t","o"," ">>,
    <<" ","-"," ">>,
    <<"-">>,
    <<" ">>,
    <<" ","-"," ","o","r"," ","t","o"," ">>,
    <<EnDash>>,
    <<" ", EnDash, " ">> }

DurationEnds == {
    <<"P","r","e","s","e","n","t">>,
    <<"c","u","r","r","e","n","t">>,
    <<" ","N","O","W">>,
    <<"2","0","2","0">>,
    <<"D","e","c"," ","2","0","2","1">>,
    <<>> }

\* the values _parse_duration is called with: the strings made of a start, a
\* separator and an end, and values that are not strings
DurationInputs ==
    {JStr(s \o sep \o e) : s \in DurationStarts, sep \in DurationSeparators, e \in DurationEnds}
    \cup {JNull, JInt(0), JInt(2020), JFlt(15), JBool(TRUE), JList(<<>>),
          JList(<<JStr(<<"2","0","1","9">>)>>), JDict(<<>>), JDict(<<KV(<<"s","t","a","r","t">>, JStr(<<"2","0","1","9">>))>>)}

DurationInit ==
    /\ op = "duration"
    /\ raw \in DurationInputs
    /\ data = raw
    /\ clock = [y |-> 0, m |-> 0, d |-> 0, H |-> 0, M |-> 0, S |-> 0]
    /\ result = JNull
    /\ again = JNull
    /\ pc = "reply"
    /\ files = [resume |-> <<>>, jd |-> <<>>, analysis |-> <<>>]
    /\ handlers = <<>>
    /\ workers = 0
    /\ served = 0

\* self._parse_duration(value)
ParseDuration ==
    /\ pc = "reply" /\ op = "duration"
    /\ result' = _parse_duration(data)
    /\ pc' = "returned"
    /\ UNCHANGED <<op, raw, data, clock, again>>
    /\ UNCHANGED <<files, handlers, workers, served>>

DurationNext == ParseDuration

DurationSpec == DurationInit /\ [][DurationNext]_vars

(***************************************************************************)
(* _enrich_experience_with_company_info called on an experience list; the  *)
(* lookup of a company is the search and the model's reply, any of the     *)
(* objects below.                                                          *)
(***************************************************************************)

\* the entries of the experience list that is enriched
EnrichEntries == {
    JDict(<<KV(<<"C","o","m","p","a","n","y","N","a","m","e">>, JStr(<<"A","m","a","z","o","n">>)), KV(<<"B","u","s","i","n","e","s","s","T","y","p","e">>, JStr(<<"B","2","C">>))>>),
    JDict(<<KV(<<"C","o","m","p","a","n","y","N","a","m","e">>, JStr(<<"A","c","m","e">>)), KV(<<"B","u","s","i","n","e","s","s","T","y","p","e">>, JStr(<<"B","2","B">>)), KV(<<"C","o","m","p","a","n","y","T","y","p","e">>, JStr(<<"N","o","t"," ","s","p","e","c","i","f","i","e","d">>))>>),
    JDict(<<KV(<<"C","o","m","p","a","n","y","N","a","m","e">>, JStr(<<"A","c","m","e">>)), KV(<<"C","o","m","p","a","n","y","T","y","p","e">>, JStr(<<"S","e","r","v","i","c","e">>)), KV(<<"B","u","s","i","n","e","s","s","T","y","p","e">>, JStr(<<"B","2","B">>)), KV(<<"N","u","m","b","e","r","O","f","E","m","p","l","o","y","e","e","s">>, JStr(<<"5","0">>)), KV(<<"C","o","m","p","a","n","y","R","e","v","e","n","u","e">>, JStr(<<"$","1","M">>)), KV(<<"F","u","n","d","i","n","g">>, JStr(<<"S","e","e","d">>))>>),
    JDict(<<KV(<<"B","u","s","i","n","e","s","s","T","y","p","e">>, JStr(<<>>))>>),
    JDict(<<KV(<<"C","o","m","p","a","n","y","N","a","m","e">>, JStr(<<"G","o","o","g","l","e">>)), KV(<<"C","o","m","p","a","n","y","T","y","p","e">>, JStr(<<"P","r","o","d","u","c","t">>)), KV(<<"B","u","s","i","n","e","s","s","T","y","p","e">>, JStr(<<"B","2","C">>)), KV(<<"N","u","m","b","e","r","O","f","E","m","p","l","o","y","e","e","s">>, JStr(<<"1","0","0","0","+">>)), KV(<<"C","o","m","p","a","n","y","R","e","v","e","n","u","e">>, JStr(<<"$","1","B">>)), KV(<<"F","u","n","d","i","n","g">>, JStr(<<" ">>))>>),
    JStr(<<"x">>) }

\* what _fetch_company_info returns: the parsed reply, {} after an error
CompanyInfos == {
    <<>>,
    <<KV(<<"B","u","s","i","n","e","s","s","T","y","p","e">>, JStr(<<"B","2","C">>)), KV(<<"N","u","m","b","e","r","O","f","E","m","p","l","o","y","e","e","s">>, JStr(<<"5","0","0">>))>>,
    <<KV(<<"B","u","s","i","n","e","s","s","T","y","p","e">>, JStr(<<"N","o","t"," ","s","p","e","c","i","f","i","e","d">>)), KV(<<"F","u","n","d","i","n","g">>, JStr(<<"S","e","r","i","e","s"," ","A">>))>>,
    <<KV(<<"B","u","s","i","n","e","s","s","T","y","p","e">>, JStr(<<"B","2","B">>)), KV(<<"C","o","m","p","a","n","y","R","e","v","e","n","u","e">>, JStr(<<"$","1","0","M">>)), KV(<<"F","u","n","d","i","n","g">>, JStr(<<>>))>> }

EnrichLists ==
    {JList(l) : l \in UNION {ListsOfLen(EnrichEntries, k) : k \in 0..MaxEntries}}
    \cup {JNull}

EnrichInit ==
    /\ op = "enrich"
    /\ raw \in EnrichLists
    /\ data = raw
    /\ clock = [y |-> 0, m |-> 0, d |-> 0, H |-> 0, M |-> 0, S |-> 0]
    /\ result = JNull
    /\ again = JNull
    /\ pc = "reply"
    /\ files = [resume |-> <<>>, jd |-> <<>>, analysis |-> <<>>]
    /\ handlers = <<>>
    /\ workers = 0
    /\ served = 0

\* parsed_data["Experience"] = self._enrich_experience_with_company_info(...)
EnrichExperience ==
    /\ pc = "reply" /\ op = "enrich"
    /\ \E lookups \in [1..Len(data.l) -> CompanyInfos] :
          result' = _enrich_experience_with_company_info(data, lookups)
    /\ pc' = "returned"
    /\ UNCHANGED <<op, raw, data, clock, again>>
    /\ UNCHANGED <<files, handlers, workers, served>>

EnrichNext == EnrichExperience

EnrichSpec == EnrichInit /\ [][EnrichNext]_vars

(***************************************************************************)
(* Replies of two fields that are stored under the same name.  Both keys   *)
(* are keys of the record type's table or standard fields, so that every   *)
(* pair of names of one field meets in both orders.                        *)
(***************************************************************************)

PairInit ==
    /\ op \in {"resume", "jd", "match"}
    /\ LET Name(mappings, lower_keys, field) ==
               LET Found(standard_field) ==
                       IF standard_field # <<>> THEN standard_field ELSE field
               IN  Found(LookupIgnoreCase(mappings, lower_keys, field))
           StoredAs(field) ==
               CASE op = "resume" -> IF HasKey(ResumeFieldMappings, lower(field))
                                     THEN Get(ResumeFieldMappings, lower(field))
                                     ELSE field
                 [] op = "jd"     -> Name(JdFieldMappings, JdLowerKeys, field)
                 [] op = "match"  -> Name(MatchFieldMappings, MatchLowerKeys, field)
           Values == {JStr(<<"v">>), JInt(7), JNull,
                      JList(<<JStr(<<"P","y","t","h","o","n">>), JStr(<<"C","o","m","m","u","n","i","c","a","t","i","o","n">>)>>),
                      JList(<<JDict(<<KV(<<"n","a","m","e">>, JStr(<<"A","c","m","e">>))>>)>>)}
           Pairs == {p \in FieldKeys(op) \X FieldKeys(op) :
                        p[1] # p[2] /\ StoredAs(p[1]) = StoredAs(p[2])}
       IN  raw \in {JDict(<<KV(p[1], v1), KV(p[2], v2)>>) :
                       p \in Pairs, v1 \in Values, v2 \in Values}
    /\ data = raw
    /\ clock = [y |-> 0, m |-> 0, d |-> 0, H |-> 0, M |-> 0, S |-> 0]
    /\ result = JNull
    /\ again = JNull
    /\ pc = "reply"
    /\ files = [resume |-> <<>>, jd |-> <<>>, analysis |-> <<>>]
    /\ handlers = <<>>
    /\ workers = 0
    /\ served = 0

PairNext ==
    \/ NormalizeResume
    \/ NormalizeJd
    \/ NormalizeMatch

PairSpec == PairInit /\ [][PairNext]_vars

(***************************************************************************)
(* ResumeParsingBot.process_job_description, from the parsed reply of the  *)
(* extraction call on.  enrich_company_info is on, as it is for the bot    *)
(* that main.py constructs.  Of the result the status and jd_data are      *)
(* kept.                                                                   *)
(***************************************************************************)

\* the function needs_enrichment local to process_job_description
jd_needs_enrichment(value) ==
    \/ value = JNull
    \/ value = Literal.NotSpecified
    \/ value = JStr(<<>>)
    \/ strip(PyStr(value)) = <<>>
    \/ value = JStr(<<"n","u","l","l">>)
    \/ lower(PyStr(value)) = <<"n","o","t"," ","m","e","n","t","i","o","n","e","d">>

\* the result of process_job_description when json.loads gave reply, the
\* second extraction call gave the text extracted_company (Raised when it
\* failed) and _fetch_company_info gives company_info for a name that is
\* not blank (it gives {} for a blank one and raises for one that is not a
\* str).  An exception raised on the way is caught and gives the result of
\* status "error"; the local business_type is bound only in the branch that
\* reads company_info["BusinessType"], and reading it unbound raises
process_job_description(reply, extracted_company, company_info, file_name, now) ==
    LET Success(parsed_data) ==
            JDict(<<KV(<<"j","d","_","d","a","t","a">>, JDict(Put(Put(parsed_data, <<"j","d","_","f","i","l","e">>, JStr(file_name)),
                                            <<"u","p","l","o","a","d","_","d","a","t","e">>, Timestamp(now)))),
                    KV(<<"s","t","a","t","u","s">>, Literal.success)>>)
        Failure == JDict(<<KV(<<"s","t","a","t","u","s">>, Literal.error)>>)
        Known(company_name, names) == \E i \in 1..Len(names) : Contains(lower(company_name), names[i])
        \* business_type: unbound is the value Raised
        WithBusinessType(parsed_data, business_type) ==
            IF ~jd_needs_enrichment(GetOr(parsed_data, JdKey.BusinessTypePreference, JNull))
            THEN Success(parsed_data)
            ELSE IF business_type = Raised THEN Failure
            ELSE IF Truthy(business_type)
            THEN Success(Put(parsed_data, JdKey.BusinessTypePreference, business_type))
            ELSE Success(parsed_data)
        ByBusinessType(parsed_data, business_type) ==
            IF ~InBusinessType(business_type).ok THEN Failure
            ELSE IF InBusinessType(business_type).in
            THEN WithBusinessType(Put(parsed_data, JdKey.CompanyTypePreference, JStr(<<"P","r","o","d","u","c","t">>)),
                                  business_type)
            ELSE WithBusinessType(Put(parsed_data, JdKey.CompanyTypePreference, JStr(<<"S","e","r","v","i","c","e">>)),
                                  business_type)
        WithCompanyType(parsed_data, company_name) ==
            IF Known(company_name, <<<<"a","m","a","z","o","n">>, <<"g","o","o","g","l","e">>, <<"m","i","c","r","o","s","o","f","t">>, <<"a","p","p","l","e">>, <<"m","e","t","a">>>>)
            THEN WithBusinessType(Put(parsed_data, JdKey.CompanyTypePreference, JStr(<<"P","r","o","d","u","c","t">>)), Raised)
            ELSE IF Known(company_name, <<<<"t","c","s">>, <<"t","a","t","a"," ","c","o","n","s","u","l","t","a","n","c","y">>, <<"t","a","t","a"," ","c","o","n","s","u","l","t","a","n","c","y"," ","s","e","r","v","i","c","e","s">>>>)
            THEN WithBusinessType(Put(parsed_data, JdKey.CompanyTypePreference, JStr(<<"S","e","r","v","i","c","e">>)), Raised)
            ELSE IF Truthy(GetOr(company_info.d, <<"B","u","s","i","n","e","s","s","T","y","p","e">>, JNull))
            THEN ByBusinessType(parsed_data, GetOr(company_info.d, <<"B","u","s","i","n","e","s","s","T","y","p","e">>, JStr(<<>>)))
            ELSE WithBusinessType(parsed_data, Raised)
        Search(parsed_data, company_name) ==
            IF ~Truthy(company_name) \/ company_name = Literal.NotFound THEN Success(parsed_data)
            ELSE IF ~IsStr(company_name) THEN Failure
            ELSE IF strip(company_name.s) = <<>> THEN Success(parsed_data)
            ELSE IF company_info = JNull \/ ~Truthy(company_info) THEN Success(parsed_data)
            ELSE WithCompanyType(parsed_data, company_name.s)
        Extract(parsed_data, company_name) ==
            IF Truthy(company_name) /\ company_name # Literal.NotFound
            THEN Search(parsed_data, company_name)
            ELSE IF extracted_company = Raised THEN Search(parsed_data, company_name)
            ELSE IF strip(extracted_company.s) # <<>> /\ lower(strip(extracted_company.s)) # <<"n","o","t"," ","f","o","u","n","d">>
            THEN Search(Put(parsed_data, JdKey.CompanyName, JStr(strip(extracted_company.s))),
                        JStr(strip(extracted_company.s)))
            ELSE Search(parsed_data, company_name)
        Enrich(parsed_data) ==
            IF jd_needs_enrichment(GetOr(parsed_data, JdKey.CompanyTypePreference, JNull))
            THEN Extract(parsed_data, GetOr(parsed_data, JdKey.CompanyName, JNull))
            ELSE Success(parsed_data)
        Normalized(r) == IF r.val = Raised THEN Failure ELSE Enrich(r.val.d)
    IN  Normalized(_normalize_jd_fields(reply.d))

\* the replies of the extraction call: a job title, with or without a
\* company name, a company type and a business type
ProcessReplies ==
    LET Optional(key, values) == {<<>>} \cup {<<KV(key, v)>> : v \in values}
    IN  {JDict(name \o <<KV(JdKey.JobTitle, JStr(<<"D","e","v">>))>> \o company_type \o business_type) :
            name \in Optional(JdKey.CompanyName,
                              {JNull, Literal.NotFound, JStr(<<"A","m","a","z","o","n">>), JStr(<<"T","C","S">>), JStr(<<"A","c","m","e">>), JInt(5)}),
            company_type \in Optional(JdKey.CompanyTypePreference,
                                      {JStr(<<"P","r","o","d","u","c","t">>), JStr(<<"N","o","t"," ","m","e","n","t","i","o","n","e","d">>), JNull}),
            business_type \in Optional(JdKey.BusinessTypePreference,
                                       {JStr(<<"B","2","B">>), JStr(<<"n","u","l","l">>)})}

\* the replies of the call that extracts the company name alone
ExtractedCompanies == {Raised, JStr(<<"N","o","t"," ","f","o","u","n","d">>), JStr(<<" ","M","e","t","a"," ">>), JStr(<<"A","c","m","e">>), JStr(<<>>)}

ProcessInit ==
    /\ op = "process-jd"
    /\ raw \in ProcessReplies
    /\ data = raw
    /\ clock \in Clocks
    /\ result = JNull
    /\ again = JNull
    /\ pc = "reply"
    /\ files = [resume |-> <<>>, jd |-> <<>>, analysis |-> <<>>]
    /\ handlers = <<>>
    /\ workers = 0
    /\ served = 0

\* result = bot.process_job_description(file_path)
ProcessJobDescription ==
    /\ pc = "reply" /\ op = "process-jd"
    /\ \E extracted_company \in ExtractedCompanies,
          company_info \in {JNull} \cup {JDict(info) : info \in CompanyInfos} :
          result' = process_job_description(data, extracted_company, company_info, <<"j","d",".","p","d","f">>, clock)
    /\ pc' = "returned"
    /\ UNCHANGED <<op, raw, data, clock, again>>
    /\ UNCHANGED <<files, handlers, workers, served>>

ProcessNext == ProcessJobDescription

ProcessSpec == ProcessInit /\ [][ProcessNext]_vars

(***************************************************************************)
(* GoogleSearchAPI.search_multiple_pages of search.py.  One step is one    *)
(* iteration of the loop over range(pages_needed): the call of search for  *)
(* the page and what the loop does with its result.  data holds the locals *)
(* of the call: total_results, the loop index page, the results of the     *)
(* calls of search so far (fetched), all_items, the status of              *)
(* combined_results and whether the loop was left by break.  Of the        *)
(* combined result the status and the items are kept; an item is the page  *)
(* and the rank it was returned at.                                        *)
(***************************************************************************)

\* min((total_results + 9) // 10, 10) with every page needed
pages_needed_uncapped(total_results) == (total_results + 9) \div 10

\* min((total_results + 9) // 10, 10)
pages_needed(total_results) ==
    IF (total_results + 9) \div 10 < 10 THEN (total_results + 9) \div 10 ELSE 10

\* l[:n]
PrefixSlice(l, n) ==
    IF n >= 0
    THEN SubSeq(l, 1, IF n < Len(l) THEN n ELSE Len(l))
    ELSE SubSeq(l, 1, IF Len(l) + n > 0 THEN Len(l) + n ELSE 0)

\* the numbers of results asked for
TotalResults == {-12, -3, 0, 1, 10, 15, 25, 120}

\* what search can return for a page: an error, with no items, or a
\* success with some number of items
PageResults(page) ==
    {[status |-> "error", items |-> <<>>]}
    \cup {[status |-> "success", items |-> [rank \in 1..n |-> [page |-> page, rank |-> rank]]] :
             n \in {0, 3, 10, 11}}

SearchInit ==
    /\ op = "search"
    /\ raw \in {JInt(total_results) : total_results \in TotalResults}
    /\ data = [total_results |-> raw.n, page |-> 0, fetched |-> <<>>, all_items |-> <<>>,
               status |-> "success", break |-> FALSE]
    /\ clock = [y |-> 0, m |-> 0, d |-> 0, H |-> 0, M |-> 0, S |-> 0]
    /\ result = JNull
    /\ again = JNull
    /\ pc = "searching"
    /\ files = [resume |-> <<>>, jd |-> <<>>, analysis |-> <<>>]
    /\ handlers = <<>>
    /\ workers = 0
    /\ served = 0

\* the body of the loop for the next page
SearchPage ==
    /\ pc = "searching" /\ op = "search"
    /\ ~data.break /\ data.page < pages_needed(data.total_results)
    /\ \E page_results \in PageResults(data.page) :
          data' = IF page_results.status = "error"
                  THEN [data EXCEPT !.fetched = Append(@, page_results),
                                    !.status = "partial_error", !.break = TRUE]
                  ELSE [data EXCEPT !.fetched = Append(@, page_results),
                                    !.all_items = @ \o page_results.items,
                                    !.break = Len(page_results.items) < 10,
                                    !.page = @ + 1]
    /\ UNCHANGED <<op, raw, clock, result, again, pc>>
    /\ UNCHANGED <<files, handlers, workers, served>>

\* after the loop: combined_results["items"] = all_items[:total_results]
ReturnCombined ==
    /\ pc = "searching" /\ op = "search"
    /\ data.break \/ data.page >= pages_needed(data.total_results)
    /\ result' = [status |-> data.status, items |-> PrefixSlice(data.all_items, data.total_results)]
    /\ pc' = "returned"
    /\ UNCHANGED <<op, raw, data, clock, again>>
    /\ UNCHANGED <<files, handlers, workers, served>>

SearchNext == SearchPage \/ ReturnCombined

\* the call runs on: a step that can be taken is taken
SearchSpec == SearchInit /\ [][SearchNext]_vars /\ WF_vars(SearchNext)

(***************************************************************************)
(* The API server of main.py.  Every handler but reset_data_store starts   *)
(* with load_sessions() and works on the three dicts it returned; a        *)
(* handler that changed one of them writes all three back with             *)
(* save_sessions.  A request is handled in two steps, load_sessions and    *)
(* the rest of the handler, so that the requests of server processes       *)
(* sharing data_storage interleave between the two; with one process a     *)
(* request is handled to its end before the next is received.  The file    *)
(* system is taken to perform every read and write.  Of the body of a      *)
(* response the status and the IDs are kept.                               *)
(***************************************************************************)

\* the largest number of requests the server receives
MaxRequests == 3

\* the number of requests modelled when two processes share the directory
MaxOverlapping == 2

RequestBudget == IF workers = 1 THEN MaxRequests ELSE MaxOverlapping

\* str(uuid.uuid4()) of the request with this serial number: no two requests
\* get the same
\* the dict given to update_candidate_status as resume_data, once the call
\* has returned or raised: the status fields are assigned to the copy
\* updated_resume, never to resume_data
given_resume_data(resume_data, update_info) == resume_data

\* the parameters of a request to analyze-match, chat or clear-specific-session
Parameters(resume_id, jd_id, query, completed) ==
    [resume_id |-> resume_id, jd_id |-> jd_id, query |-> query, completed |-> completed]

NoParameters == Parameters(<<>>, <<>>, <<>>, FALSE)

\* a fresh session ID
uuid4(serial) == <<"u">> \o NatChars(serial)

\* the IDs a request names: the IDs of the sessions the handler loaded, and
\* one that no session has
SessionIds(h) == Keys(h.resume_sessions) \cup Keys(h.jd_sessions) \cup {<<"x">>}

\* what process_resume, process_job_description and analyze_match return to
\* the handler, Raised when the call raised
BotResults(data_key) ==
    LET Success(record) == JDict(<<KV(<<"s","t","a","t","u","s">>, Literal.success), KV(data_key, record)>>)
    IN  CASE data_key = <<"r","e","s","u","m","e","_","d","a","t","a">> ->
                {Success(JDict(<<KV(ResumeKey.CandidateFullName, JStr(<<"J","o","h","n"," ","D","o","e">>)),
                                 KV(ResumeKey.EmailAddress, JStr(<<"j","o","h","n","@","e","x","a","m","p","l","e",".","c","o","m">>)),
                                 KV(ResumeKey.PhoneNumber, JStr(<<"5","5","5","1","2","3","4","5","6","7">>))>>)),
                 Success(JDict(<<KV(ResumeKey.CandidateFullName, JNull),
                                 KV(ResumeKey.EmailAddress, Literal.NotFound),
                                 KV(ResumeKey.PhoneNumber, Literal.NotFound)>>)),
                 JDict(<<KV(<<"s","t","a","t","u","s">>, Literal.error), KV(<<"m","e","s","s","a","g","e">>, JStr(<<"F","a","i","l","e","d"," ","t","o"," ","e","x","t","r","a","c","t"," ","t","e","x","t">>))>>),
                 Raised}
          [] data_key = <<"j","d","_","d","a","t","a">> ->
                {Success(JDict(<<KV(JdKey.JobTitle, JStr(<<"D","e","v">>))>>)),
                 JDict(<<KV(<<"s","t","a","t","u","s">>, Literal.error), KV(<<"m","e","s","s","a","g","e">>, JStr(<<"F","a","i","l","e","d"," ","t","o"," ","e","x","t","r","a","c","t"," ","t","e","x","t">>))>>),
                 Raised}
          [] data_key = <<"m","a","t","c","h","_","a","n","a","l","y","s","i","s">> ->
                {Success(JDict(<<KV(MatchKey.AIRating, JInt(7))>>)),
                 JDict(<<KV(<<"s","t","a","t","u","s">>, Literal.error), KV(<<"m","e","s","s","a","g","e">>, JStr(<<"F","a","i","l","e","d"," ","t","o"," ","p","a","r","s","e">>))>>),
                 Raised}

\* the messages of chat requests
Messages == {
    <<"A","n","y"," ","g","a","p","s","?">>,
    <<"r","e","j","e","c","t"," ","j","o","h","n"," ","d","o","e">>,
    <<"r","e","j","e","c","t"," ","j","a","n","e"," ","r","o","e">>,
    <<"j","o","h","n","@","e","x","a","m","p","l","e",".","c","o","m"," ","j","o","i","n","e","d">>,
    <<"o","f","f","e","r"," ","5","5","5","1","2","3","4","5","6","7">>,
    <<"i","n","t","e","r","v","i","e","w"," ","J","o","h","n"," ","D","o","e",","," ","m","o","v","e"," ","t","o"," ","i","n","t","e","r","v","i","e","w">> }

\* what save_sessions leaves in the three files
save_sessions(resume_data, jd_data, analysis_data) ==
    [resume |-> resume_data, jd |-> jd_data, analysis |-> analysis_data]

\* the server starts with n processes over the files an earlier run left
ServerStarts(n) ==
    /\ op = "serve" /\ pc = "serving"
    /\ raw = JNull /\ data = JNull /\ result = JNull /\ again = JNull
    /\ clock = [y |-> 0, m |-> 0, d |-> 0, H |-> 0, M |-> 0, S |-> 0]
    /\ files \in {save_sessions(<<>>, <<>>, <<>>),
                  save_sessions(
                      <<KV(<<"a">>, JDict(<<KV(ResumeKey.CandidateFullName, JStr(<<"J","o","h","n"," ","D","o","e">>)),
                                            KV(ResumeKey.EmailAddress, JStr(<<"j","o","h","n","@","e","x","a","m","p","l","e",".","c","o","m">>)),
                                            KV(ResumeKey.PhoneNumber, JStr(<<"5","5","5","1","2","3","4","5","6","7">>)),
                                            KV(<<"i","d">>, JStr(<<"a">>))>>))>>,
                      <<KV(<<"b">>, JDict(<<KV(JdKey.JobTitle, JStr(<<"D","e","v">>)), KV(<<"i","d">>, JStr(<<"b">>))>>))>>,
                      <<KV(<<"a","_","b">>, JDict(<<KV(MatchKey.AIRating, JInt(7))>>))>>)}
    /\ workers = n
    /\ handlers = [p \in 1..workers |->
                      [pc |-> "idle", endpoint |-> "", serial |-> 0,
                       resume_sessions |-> <<>>, jd_sessions |-> <<>>, analysis_sessions |-> <<>>,
                       code |-> 0, response |-> JNull, request |-> NoParameters]]
    /\ served = 0

\* a request arrives at a process that is not handling one, and the handler
\* calls load_sessions()
LoadSessions(p) ==
    /\ p \in DOMAIN handlers
    /\ handlers[p].pc # "loaded"
    /\ served < RequestBudget
    /\ \E endpoint \in {"upload-resume", "upload-jd", "analyze-match", "chat", "clear-specific-session"} :
          handlers' = [handlers EXCEPT ![p] =
                          [pc |-> "loaded", endpoint |-> endpoint, serial |-> served + 1,
                           resume_sessions |-> files.resume,
                           jd_sessions |-> files.jd,
                           analysis_sessions |-> files.analysis,
                           code |-> 0, response |-> JNull, request |-> NoParameters]]
    /\ served' = served + 1
    /\ UNCHANGED <<files, workers>>
    /\ UNCHANGED <<op, raw, data, clock, result, again, pc>>

\* upload_resume after load_sessions()
UploadResume(p) ==
    /\ p \in DOMAIN handlers
    /\ handlers[p].pc = "loaded" /\ handlers[p].endpoint = "upload-resume"
    /\ \E accepted \in BOOLEAN, bot_result \in BotResults(<<"r","e","s","u","m","e","_","d","a","t","a">>) :
          LET h == handlers[p]
              resume_id == uuid4(h.serial)
              Fail(code) ==
                  /\ handlers' = [handlers EXCEPT ![p].pc = "done", ![p].code = code]
                  /\ UNCHANGED files
              Return(body) ==
                  /\ handlers' = [handlers EXCEPT ![p].pc = "done", ![p].code = 200, ![p].response = body]
                  /\ UNCHANGED files
              Store(resume_data) ==
                  /\ handlers' = [handlers EXCEPT
                        ![p].pc = "done", ![p].code = 200,
                        ![p].resume_sessions = Put(h.resume_sessions, resume_id, resume_data),
                        ![p].response = JDict(<<KV(<<"s","t","a","t","u","s">>, Literal.success),
                                                 KV(<<"r","e","s","u","m","e","_","i","d">>, JStr(resume_id))>>)]
                  /\ files' = save_sessions(Put(h.resume_sessions, resume_id, resume_data),
                                            h.jd_sessions, h.analysis_sessions)
          IN  IF ~accepted THEN Fail(400)
              ELSE IF bot_result = Raised THEN Fail(500)
              ELSE IF Get(bot_result.d, <<"s","t","a","t","u","s">>) = Literal.success
              THEN Store(JDict(Put(Get(bot_result.d, <<"r","e","s","u","m","e","_","d","a","t","a">>).d, <<"i","d">>, JStr(resume_id))))
              ELSE Return(JDict(<<KV(<<"s","t","a","t","u","s">>, Get(bot_result.d, <<"s","t","a","t","u","s">>))>>))
    /\ UNCHANGED <<workers, served>>
    /\ UNCHANGED <<op, raw, data, clock, result, again, pc>>

\* upload_jd after load_sessions()
UploadJd(p) ==
    /\ p \in DOMAIN handlers
    /\ handlers[p].pc = "loaded" /\ handlers[p].endpoint = "upload-jd"
    /\ \E bot_result \in BotResults(<<"j","d","_","d","a","t","a">>) :
          LET h == handlers[p]
              jd_id == uuid4(h.serial)
              Fail(code) ==
                  /\ handlers' = [handlers EXCEPT ![p].pc = "done", ![p].code = code]
                  /\ UNCHANGED files
              Return(body) ==
                  /\ handlers' = [handlers EXCEPT ![p].pc = "done", ![p].code = 200, ![p].response = body]
                  /\ UNCHANGED files
              Store(jd_data) ==
                  /\ handlers' = [handlers EXCEPT
                        ![p].pc = "done", ![p].code = 200,
                        ![p].jd_sessions = Put(h.jd_sessions, jd_id, jd_data),
                        ![p].response = JDict(<<KV(<<"s","t","a","t","u","s">>, Literal.success),
                                                 KV(<<"j","d","_","i","d">>, JStr(jd_id))>>)]
                  /\ files' = save_sessions(h.resume_sessions,
                                            Put(h.jd_sessions, jd_id, jd_data), h.analysis_sessions)
          IN  IF bot_result = Raised THEN Fail(500)
              ELSE IF Get(bot_result.d, <<"s","t","a","t","u","s">>) = Literal.success
              THEN Store(JDict(Put(Get(bot_result.d, <<"j","d","_","d","a","t","a">>).d, <<"i","d">>, JStr(jd_id))))
              ELSE Return(JDict(<<KV(<<"s","t","a","t","u","s">>, Get(bot_result.d, <<"s","t","a","t","u","s">>))>>))
    /\ UNCHANGED <<workers, served>>
    /\ UNCHANGED <<op, raw, data, clock, result, again, pc>>

\* analyze_match without the two checks that the IDs name stored sessions
AnalyzeMatchUnchecked(p) ==
    /\ p \in DOMAIN handlers
    /\ handlers[p].pc = "loaded" /\ handlers[p].endpoint = "analyze-match"
    /\ \E resume_id \in SessionIds(handlers[p]), jd_id \in SessionIds(handlers[p]), bot_result \in BotResults(<<"m","a","t","c","h","_","a","n","a","l","y","s","i","s">>) :
          LET h == [handlers[p] EXCEPT !.request = Parameters(resume_id, jd_id, <<>>, FALSE)]
              analysis_key == resume_id \o <<"_">> \o jd_id
              WithIds(body) == JDict(<<KV(<<"s","t","a","t","u","s">>, Get(body, <<"s","t","a","t","u","s">>)),
                                       KV(<<"r","e","s","u","m","e","_","i","d">>, JStr(resume_id)), KV(<<"j","d","_","i","d">>, JStr(jd_id))>>)
              Fail(code) ==
                  /\ handlers' = [handlers EXCEPT ![p] = [h EXCEPT !.pc = "done", !.code = code]]
                  /\ UNCHANGED files
              Return(body) ==
                  /\ handlers' = [handlers EXCEPT ![p] = [h EXCEPT !.pc = "done", !.code = 200, !.response = body]]
                  /\ UNCHANGED files
              Store(match_analysis) ==
                  /\ handlers' = [handlers EXCEPT ![p] = [h EXCEPT
                        !.pc = "done", !.code = 200,
                        !.analysis_sessions = Put(h.analysis_sessions, analysis_key, match_analysis),
                        !.response = WithIds(bot_result.d)]]
                  /\ files' = save_sessions(h.resume_sessions, h.jd_sessions,
                                            Put(h.analysis_sessions, analysis_key, match_analysis))
          IN  IF bot_result = Raised THEN Fail(500)
              ELSE IF Get(bot_result.d, <<"s","t","a","t","u","s">>) = Literal.success
              THEN Store(Get(bot_result.d, <<"m","a","t","c","h","_","a","n","a","l","y","s","i","s">>))
              ELSE Return(WithIds(bot_result.d))
    /\ UNCHANGED <<workers, served>>
    /\ UNCHANGED <<op, raw, data, clock, result, again, pc>>

\* analyze_match of main.py after load_sessions()
AnalyzeMatchRequest(p) ==
    /\ p \in DOMAIN handlers
    /\ handlers[p].pc = "loaded" /\ handlers[p].endpoint = "analyze-match"
    /\ \E resume_id \in SessionIds(handlers[p]), jd_id \in SessionIds(handlers[p]), bot_result \in BotResults(<<"m","a","t","c","h","_","a","n","a","l","y","s","i","s">>) :
          LET h == [handlers[p] EXCEPT !.request = Parameters(resume_id, jd_id, <<>>, FALSE)]
              analysis_key == resume_id \o <<"_">> \o jd_id
              WithIds(body) == JDict(<<KV(<<"s","t","a","t","u","s">>, Get(body, <<"s","t","a","t","u","s">>)),
                                       KV(<<"r","e","s","u","m","e","_","i","d">>, JStr(resume_id)), KV(<<"j","d","_","i","d">>, JStr(jd_id))>>)
              Fail(code) ==
                  /\ handlers' = [handlers EXCEPT ![p] = [h EXCEPT !.pc = "done", !.code = code]]
                  /\ UNCHANGED files
              Return(body) ==
                  /\ handlers' = [handlers EXCEPT ![p] = [h EXCEPT !.pc = "done", !.code = 200, !.response = body]]
                  /\ UNCHANGED files
              Store(match_analysis) ==
                  /\ handlers' = [handlers EXCEPT ![p] = [h EXCEPT
                        !.pc = "done", !.code = 200,
                        !.analysis_sessions = Put(h.analysis_sessions, analysis_key, match_analysis),
                        !.response = WithIds(bot_result.d)]]
                  /\ files' = save_sessions(h.resume_sessions, h.jd_sessions,
                                            Put(h.analysis_sessions, analysis_key, match_analysis))
          IN  IF ~HasKey(h.resume_sessions, resume_id) THEN Fail(404)
              ELSE IF ~HasKey(h.jd_sessions, jd_id) THEN Fail(404)
              ELSE IF bot_result = Raised THEN Fail(500)
              ELSE IF Get(bot_result.d, <<"s","t","a","t","u","s">>) = Literal.success
              THEN Store(Get(bot_result.d, <<"m","a","t","c","h","_","a","n","a","l","y","s","i","s">>))
              ELSE Return(WithIds(bot_result.d))
    /\ UNCHANGED <<workers, served>>
    /\ UNCHANGED <<op, raw, data, clock, result, again, pc>>

\* chat after load_sessions(); jd_id <<>> is a request without jd_id
Chat(p) ==
    /\ p \in DOMAIN handlers
    /\ handlers[p].pc = "loaded" /\ handlers[p].endpoint = "chat"
    /\ \E resume_id \in SessionIds(handlers[p]), jd_id \in SessionIds(handlers[p]) \cup {<<>>},
          query \in Messages, completed \in BOOLEAN :
          LET h == [handlers[p] EXCEPT !.request = Parameters(resume_id, jd_id, query, completed)]
              analysis_key == resume_id \o <<"_">> \o jd_id
              jd_data == IF jd_id # <<>> THEN Get(h.jd_sessions, jd_id) ELSE JNull
              analysis_data == IF jd_id # <<>> /\ HasKey(h.analysis_sessions, analysis_key)
                               THEN Get(h.analysis_sessions, analysis_key) ELSE JNull
              WithIds(body) ==
                  IF jd_id # <<>>
                  THEN JDict(<<KV(<<"s","t","a","t","u","s">>, Get(body, <<"s","t","a","t","u","s">>)),
                               KV(<<"r","e","s","u","m","e","_","i","d">>, JStr(resume_id)), KV(<<"j","d","_","i","d">>, JStr(jd_id))>>)
                  ELSE JDict(<<KV(<<"s","t","a","t","u","s">>, Get(body, <<"s","t","a","t","u","s">>)), KV(<<"r","e","s","u","m","e","_","i","d">>, JStr(resume_id))>>)
              record == Get(h.resume_sessions, resume_id)
              status_update == _check_for_status_update(query)
              \* the handler's dict once chat_message has returned or raised
              after_call == IF status_update # <<>>
                            THEN Put(h.resume_sessions, resume_id, given_resume_data(record, status_update))
                            ELSE h.resume_sessions
              Fail(resume_sessions, code) ==
                  /\ handlers' = [handlers EXCEPT ![p] = [h EXCEPT
                        !.pc = "done", !.code = code, !.resume_sessions = resume_sessions]]
                  /\ UNCHANGED files
              Return(body) ==
                  /\ handlers' = [handlers EXCEPT ![p] = [h EXCEPT
                        !.pc = "done", !.code = 200, !.resume_sessions = after_call, !.response = body]]
                  /\ UNCHANGED files
              Store(body, updated_resume_data) ==
                  /\ handlers' = [handlers EXCEPT ![p] = [h EXCEPT
                        !.pc = "done", !.code = 200,
                        !.resume_sessions = Put(after_call, resume_id, updated_resume_data),
                        !.response = WithIds(body)]]
                  /\ files' = save_sessions(Put(after_call, resume_id, updated_resume_data),
                                            h.jd_sessions, h.analysis_sessions)
              Handle(chat_result) ==
                  IF chat_result = Raised THEN Fail(after_call, 500)
                  ELSE IF Truthy(GetOr(chat_result.d, <<"u","p","d","a","t","e","d","_","r","e","s","u","m","e","_","d","a","t","a">>, JNull))
                  THEN Store(chat_result.d, Get(chat_result.d, <<"u","p","d","a","t","e","d","_","r","e","s","u","m","e","_","d","a","t","a">>))
                  ELSE Return(WithIds(chat_result.d))
          IN  IF ~HasKey(h.resume_sessions, resume_id) THEN Fail(h.resume_sessions, 404)
              ELSE IF jd_id # <<>> /\ ~HasKey(h.jd_sessions, jd_id) THEN Fail(h.resume_sessions, 404)
              ELSE Handle(chat_message(record, jd_data, analysis_data,
                                       query, completed))
    /\ UNCHANGED <<workers, served>>
    /\ UNCHANGED <<op, raw, data, clock, result, again, pc>>

\* clear_specific_session deleting the resume session with the analysis
ClearWithResume(p) ==
    /\ p \in DOMAIN handlers
    /\ handlers[p].pc = "loaded" /\ handlers[p].endpoint = "clear-specific-session"
    /\ \E resume_id \in SessionIds(handlers[p]), jd_id \in SessionIds(handlers[p]) :
          LET h == [handlers[p] EXCEPT !.request = Parameters(resume_id, jd_id, <<>>, FALSE)]
              analysis_key == resume_id \o <<"_">> \o jd_id
              Cleared(analysis_sessions) ==
                  /\ handlers' = [handlers EXCEPT ![p] = [h EXCEPT
                        !.pc = "done", !.code = 200,
                        !.analysis_sessions = analysis_sessions,
                        !.response = JDict(<<KV(<<"s","t","a","t","u","s">>, Literal.success)>>)]]
                  /\ files' = save_sessions(IF HasKey(h.resume_sessions, resume_id)
                                            THEN Del(h.resume_sessions, resume_id)
                                            ELSE h.resume_sessions,
                                            h.jd_sessions, analysis_sessions)
          IN  IF ~HasKey(h.resume_sessions, resume_id) /\ ~HasKey(h.jd_sessions, jd_id)
              THEN /\ handlers' = [handlers EXCEPT ![p] = [h EXCEPT
                         !.pc = "done", !.code = 200,
                         !.response = JDict(<<KV(<<"s","t","a","t","u","s">>, Literal.error)>>)]]
                   /\ UNCHANGED files
              ELSE IF HasKey(h.analysis_sessions, analysis_key)
              THEN Cleared(Del(h.analysis_sessions, analysis_key))
              ELSE Cleared(h.analysis_sessions)
    /\ UNCHANGED <<workers, served>>
    /\ UNCHANGED <<op, raw, data, clock, result, again, pc>>

\* clear_specific_session after load_sessions()
ClearSpecificSession(p) ==
    /\ p \in DOMAIN handlers
    /\ handlers[p].pc = "loaded" /\ handlers[p].endpoint = "clear-specific-session"
    /\ \E resume_id \in SessionIds(handlers[p]), jd_id \in SessionIds(handlers[p]) :
          LET h == [handlers[p] EXCEPT !.request = Parameters(resume_id, jd_id, <<>>, FALSE)]
              analysis_key == resume_id \o <<"_">> \o jd_id
              Cleared(analysis_sessions) ==
                  /\ handlers' = [handlers EXCEPT ![p] = [h EXCEPT
                        !.pc = "done", !.code = 200,
                        !.analysis_sessions = analysis_sessions,
                        !.response = JDict(<<KV(<<"s","t","a","t","u","s">>, Literal.success)>>)]]
                  /\ files' = save_sessions(h.resume_sessions, h.jd_sessions, analysis_sessions)
          IN  IF ~HasKey(h.resume_sessions, resume_id) /\ ~HasKey(h.jd_sessions, jd_id)
              THEN /\ handlers' = [handlers EXCEPT ![p] = [h EXCEPT
                         !.pc = "done", !.code = 200,
                         !.response = JDict(<<KV(<<"s","t","a","t","u","s">>, Literal.error)>>)]]
                   /\ UNCHANGED files
              ELSE IF HasKey(h.analysis_sessions, analysis_key)
              THEN Cleared(Del(h.analysis_sessions, analysis_key))
              ELSE Cleared(h.analysis_sessions)
    /\ UNCHANGED <<workers, served>>
    /\ UNCHANGED <<op, raw, data, clock, result, again, pc>>

\* reset_data_store, which does not call load_sessions(): the request arrives
\* and the three files are written anew
ResetDataStore(p) ==
    /\ p \in DOMAIN handlers
    /\ handlers[p].pc # "loaded"
    /\ served < RequestBudget
    /\ handlers' = [handlers EXCEPT ![p] =
                       [pc |-> "done", endpoint |-> "reset-data-store", serial |-> served + 1,
                        resume_sessions |-> <<>>, jd_sessions |-> <<>>, analysis_sessions |-> <<>>,
                        code |-> 200, response |-> JDict(<<KV(<<"s","t","a","t","u","s">>, Literal.success)>>),
                        request |-> NoParameters]]
    /\ files' = [resume |-> <<>>, jd |-> <<>>, analysis |-> <<>>]
    /\ served' = served + 1
    /\ UNCHANGED workers
    /\ UNCHANGED <<op, raw, data, clock, result, again, pc>>

\* p is one of the server processes, of which there are at most two
StoreNext ==
    \/ \E p \in {1, 2} : LoadSessions(p)
    \/ \E p \in {1, 2} : UploadResume(p)
    \/ \E p \in {1, 2} : UploadJd(p)
    \/ \E p \in {1, 2} : AnalyzeMatchRequest(p)
    \/ \E p \in {1, 2} : Chat(p)
    \/ \E p \in {1, 2} : ClearSpecificSession(p)
    \/ \E p \in {1, 2} : ResetDataStore(p)

\* one server process: a request is handled to its end before the next
StoreSpec == ServerStarts(1) /\ [][StoreNext]_vars

\* two server processes sharing data_storage
OverlapSpec == ServerStarts(2) /\ [][StoreNext]_vars

(***************************************************************************)
(* Properties.  A record is the dict a normalizer returned; two records    *)
(* are equal as mappings when they have the same keys and equal values,    *)
(* whatever the order of the keys (Python's == on dicts, with 9 == 9.0).   *)
(***************************************************************************)

RECURSIVE SameValue(_, _)
SameValue(a, b) ==
    IF IsNumber(a) /\ IsNumber(b) THEN Tenths(a) = Tenths(b)
    ELSE IF a.t # b.t THEN FALSE
    ELSE IF a.t = "dict"
    THEN /\ Keys(a.d) = Keys(b.d)
         /\ \A k \in Keys(a.d) : SameValue(Get(a.d, k), Get(b.d, k))
    ELSE IF a.t = "list"
    THEN /\ Len(a.l) = Len(b.l)
         /\ \A i \in 1..Len(a.l) : SameValue(a.l[i], b.l[i])
    ELSE a = b

Normalizers == {"resume", "jd", "match"}

\* a normalizer was called on the reply and returned a record
Returned(o) == op = o /\ pc = "returned" /\ result # Raised

StandardFields(o) ==
    CASE o = "resume" -> ResumeStandardFields
      [] o = "jd"     -> JdStandardFields
      [] o = "match"  -> MatchStandardFields

\* the values of the raw object stored under keys that map to AIRating, in
\* the order of the keys
RatingValues(object) ==
    SelectSeq([i \in 1..Len(object) |->
                  IF MatchStoredName(object[i].k) = MatchKey.AIRating
                  THEN object[i].v ELSE Raised],
              LAMBDA v : v # Raised)

\* the rating the claim describes for these values: the first value, then for
\* every later one the maximum of the two when both convert to a number, and
\* the value held so far when one does not
ConsolidatedRating(values) ==
    LET Max(held, next) ==
            IF ~RatingNumeric(held).ok \/ ~RatingNumeric(next).ok THEN held
            ELSE IF RatingNumeric(next).n >= RatingNumeric(held).n
            THEN JFlt(RatingNumeric(next).n)
            ELSE JFlt(RatingNumeric(held).n)
    IN  FoldRange(LAMBDA held, i : Max(held, values[i]), values[1], 2, Len(values))

\* the keys of a record that name a rating: AIRating, its synonyms, and the
\* two legacy keys
RatingKeys(record) ==
    {k \in Keys(record) : \/ MatchStoredName(k) = MatchKey.AIRating
                          \/ lower(k) \in LegacyRatingKeys}

\* C1: each of the three normalizers returns a record, and never raises,
\* for every JSON object given as raw input.
C1_NormalizersNeverRaise ==
    (op \in Normalizers /\ pc = "returned") => IsDict(result)

\* C2: whenever normalization returns, the returned record has every
\* standard field of its record type as a key (7 candidate fields, 10
\* job-description fields, 15 match-analysis fields).
C2_StandardFieldsPresent ==
    \A o \in Normalizers :
        Returned(o) =>
            /\ Len(StandardFields(o)) = CASE o = "resume" -> 7 [] o = "jd" -> 10 [] o = "match" -> 15
            /\ \A i \in 1..Len(StandardFields(o)) : HasKey(result.d, StandardFields(o)[i])

\* the job-description normalizer returned for the empty object, and the
\* record has RequiredSkills, which only the filling of standard fields can
\* have put there
C2_EmptyObjectFilled ==
    /\ Returned("jd")
    /\ raw = JDict(<<>>)
    /\ HasKey(result.d, JdKey.RequiredSkills)

\* C3: idempotence: normalizing a record a normalizer returned gives a
\* record equal to it as a mapping.
C3_Idempotent ==
    pc = "renormalized" => SameValue(again, result)

\* C4: when the raw object has two or more keys that map to AIRating, the
\* record returned by match-analysis normalization has exactly one rating
\* field, AIRating, and its value is the maximum of the values that convert to
\* a number, the value already stored being kept when one side of a
\* comparison does not convert (the stored value then goes through the
\* normalizer's final conversion to a number).
C4_RatingConsolidated ==
    (Returned("match") /\ Len(RatingValues(raw.d)) >= 2) =>
        /\ RatingKeys(result.d) = {MatchKey.AIRating}
        /\ SameValue(Get(result.d, MatchKey.AIRating),
                     CoerceRating(ConsolidatedRating(RatingValues(raw.d))))

\* "Match score" 6 and "Overall rating" 9 in one object gave the rating 9
C4_SixAndNineGiveNine ==
    /\ Returned("match")
    /\ Len(raw.d) = 2
    /\ raw.d[1] = KV(<<"M","a","t","c","h"," ","s","c","o","r","e">>, JInt(6))
    /\ raw.d[2] = KV(<<"O","v","e","r","a","l","l"," ","r","a","t","i","n","g">>, JInt(9))
    /\ Tenths(Get(result.d, MatchKey.AIRating)) = 90

\* C5: the record returned by match-analysis normalization has neither the
\* key "MatchScore" nor the key "OverallRating", also when the raw object has
\* those literal keys.
C5_NoLegacyRatingKeys ==
    Returned("match") =>
        /\ ~HasKey(result.d, MatchKey.MatchScore)
        /\ ~HasKey(result.d, MatchKey.OverallRating)

\* match-analysis normalization returned for a raw object that has both
\* literal keys
C5_LegacyKeysInRaw ==
    /\ Returned("match")
    /\ HasKey(raw.d, MatchKey.MatchScore)
    /\ HasKey(raw.d, MatchKey.OverallRating)
    /\ HasKey(result.d, MatchKey.AIRating)

\* C6: in the match-analysis record analyze_match produces, AIShortlisted is
\* "Yes" for a rating >= 7 and "No" otherwise when the raw object has no
\* AIShortlisted key, and FinalResult is "Selected" for a rating >= 8,
\* "Rejected" for a rating <= 4 and "Pending" otherwise when the raw object has
\* no FinalResult key.
C6_StatusFieldsDerived ==
    (op = "analyze" /\ pc = "returned" /\ Get(result.d, MatchKey.status) = Literal.success) =>
        LET record == Get(result.d, MatchKey.match_analysis).d
            rating == Tenths(Get(record, MatchKey.AIRating))
        IN  /\ ~HasKey(raw.d, MatchKey.AIShortlisted) =>
                   Get(record, MatchKey.AIShortlisted) = IF rating >= 70 THEN Literal.Yes ELSE Literal.No
            /\ ~HasKey(raw.d, MatchKey.FinalResult) =>
                   Get(record, MatchKey.FinalResult) = IF rating >= 80 THEN Literal.Selected
                                                ELSE IF rating <= 40 THEN Literal.Rejected
                                                ELSE Literal.Pending

\* C7: after job-description normalization RequiredSkills is a mapping with
\* the keys "technical" and "soft", each a sequence, and never a flat list.
C7_RequiredSkillsShape ==
    Returned("jd") =>
        /\ HasKey(result.d, JdKey.RequiredSkills)
        /\ IsDict(Get(result.d, JdKey.RequiredSkills))
        /\ \A k \in {JdKey.technical, JdKey.soft} :
               /\ HasKey(Get(result.d, JdKey.RequiredSkills).d, k)
               /\ IsList(Get(Get(result.d, JdKey.RequiredSkills).d, k))

\* C8: after candidate normalization every entry of the Experience sequence
\* has a Duration with both keys StartDate and EndDate.
C8_DurationComplete ==
    (Returned("resume") /\ IsList(Get(result.d, ResumeKey.Experience))) =>
        \A i \in 1..Len(Get(result.d, ResumeKey.Experience).l) :
            LET entry == Get(result.d, ResumeKey.Experience).l[i]
            IN  /\ IsDict(entry)
                /\ HasKey(entry.d, ResumeKey.Duration)
                /\ IsDict(Get(entry.d, ResumeKey.Duration))
                /\ HasKey(Get(entry.d, ResumeKey.Duration).d, ResumeKey.StartDate)
                /\ HasKey(Get(entry.d, ResumeKey.Duration).d, ResumeKey.EndDate)

\* C9: the total _calculate_total_experience returns is >= 0 for every
\* sequence of experience entries.
C9_TotalNotNegative ==
    (op = "experience" /\ pc = "returned" /\ result # Raised) => Tenths(result) >= 0

\* C10: _calculate_total_experience does not raise for a list of experience
\* entries, whatever StartDate and EndDate values their Durations hold.
C10_TotalNeverRaises ==
    (/\ op = "experience" /\ pc = "returned"
     /\ IsList(raw)
     /\ \A i \in 1..Len(raw.l) : IsDict(raw.l[i])) => result # Raised

\* C11: after a normalizer returns, the raw object it was given, its nested
\* Experience, Education and CompanyAnalysis lists and their elements
\* included, is equal to what it was before the call.
C11_RawUnchanged ==
    (op \in Normalizers /\ pc = "returned" /\ result # Raised) => data = raw


\* the table of field names of a record type
FieldMappings(o) ==
    CASE o = "resume" -> ResumeFieldMappings
      [] o = "jd"     -> JdFieldMappings
      [] o = "match"  -> MatchFieldMappings

\* the words that stand for yes and for no in a shortlist decision
YesWords == {<<"y","e","s">>, <<"t","r","u","e">>, <<"1">>, <<"y">>, <<"r","e","c","o","m","m","e","n","d","e","d">>, <<"s","t","r","o","n","g","l","y"," ","r","e","c","o","m","m","e","n","d","e","d">>}

NoWords == {<<"n","o">>, <<"f","a","l","s","e">>, <<"0">>, <<"n">>, <<"n","o","t"," ","r","e","c","o","m","m","e","n","d","e","d">>}

\* the values of a field that the normalizer converts rather than stores: the
\* lists of Experience, Education and CompanyAnalysis, a list or mapping of
\* RequiredSkills, the mapping of EducationAssessment, a rating that is not a
\* number, a shortlist decision that is one of the yes/no words
Converted(o, field, v) ==
    CASE o = "resume" -> field \in {ResumeKey.Experience, ResumeKey.Education} /\ IsList(v)
      [] o = "jd"     -> field = JdKey.RequiredSkills /\ (IsList(v) \/ IsDict(v))
      [] o = "match"  ->
            \/ field = MatchKey.CompanyAnalysis /\ IsList(v)
            \/ field = MatchKey.EducationAssessment /\ IsDict(v)
            \/ field = MatchKey.AIRating /\ ~IsNumber(v)
            \/ field = MatchKey.ShouldBeShortlisted /\ lower(PyStr(v)) \in YesWords \cup NoWords

\* C12 as stated: for every key k of a record type's table, the field X it
\* maps to and every value v, normalizing the object {k: v} yields a record
\* in which X is present with the value v.
C12_SynonymKeepsValue ==
    \A o \in Normalizers :
        (op = o /\ pc = "returned" /\ Len(raw.d) = 1) =>
            \A i \in 1..Len(FieldMappings(o)) :
                FieldMappings(o)[i].k = raw.d[1].k =>
                    /\ IsDict(result)
                    /\ HasKey(result.d, FieldMappings(o)[i].v)
                    /\ Get(result.d, FieldMappings(o)[i].v) = raw.d[1].v

\* C12, amended: for every key k of a record type's table, the field X it
\* maps to and every value v that the normalizer does not convert for X,
\* normalizing the object {k: v} yields a record in which X is present with
\* the value v.
C12_SynonymConverges ==
    \A o \in Normalizers :
        (op = o /\ pc = "returned" /\ Len(raw.d) = 1) =>
            \A i \in 1..Len(FieldMappings(o)) :
                (/\ FieldMappings(o)[i].k = raw.d[1].k
                 /\ ~Converted(o, FieldMappings(o)[i].v, raw.d[1].v)) =>
                    /\ IsDict(result)
                    /\ HasKey(result.d, FieldMappings(o)[i].v)
                    /\ Get(result.d, FieldMappings(o)[i].v) = raw.d[1].v

\* the match-analysis normalizer returned for {"Match score": 7.5}: the
\* record has AIRating 7.5 and no key "Match score"
C12_ScoreStoredAsRating ==
    /\ Returned("match")
    /\ raw.d = <<KV(<<"M","a","t","c","h"," ","s","c","o","r","e">>, JFlt(75))>>
    /\ Get(result.d, MatchKey.AIRating) = JFlt(75)
    /\ ~HasKey(result.d, <<"M","a","t","c","h"," ","s","c","o","r","e">>)


\* C13: after match-analysis normalization ShouldBeShortlisted is "Yes" when
\* the text of the source value is, ignoring case, one of yes / true / 1 / y /
\* recommended / strongly recommended, "No" when it is one of no / false / 0 /
\* n / not recommended, and the source value itself otherwise.
C13_ShortlistCanonical ==
    (/\ Returned("match")
     /\ Len(raw.d) = 1
     /\ MatchStoredName(raw.d[1].k) = MatchKey.ShouldBeShortlisted) =>
        Get(result.d, MatchKey.ShouldBeShortlisted) =
            IF lower(PyStr(raw.d[1].v)) \in YesWords THEN Literal.Yes
            ELSE IF lower(PyStr(raw.d[1].v)) \in NoWords THEN Literal.No
            ELSE raw.d[1].v

\* the match-analysis normalizer returned for {"Shortlist": "<<"T","R","U","E">>UE"} and the
\* decision of the record is "Yes"
C13_TrueBecomesYes ==
    /\ Returned("match")
    /\ raw.d = <<KV(<<"S","h","o","r","t","l","i","s","t">>, JStr(<<"T","R","U","E">>))>>
    /\ Get(result.d, MatchKey.ShouldBeShortlisted) = Literal.Yes


\* C14: after match-analysis normalization of any raw object AIRating is an
\* integer (a number without fractional part), also when the rating given is
\* a fractional number.
C14_RatingIsInteger ==
    Returned("match") =>
        /\ HasKey(result.d, MatchKey.AIRating)
        /\ IsNumber(Get(result.d, MatchKey.AIRating))
        /\ Tenths(Get(result.d, MatchKey.AIRating)) % 10 = 0


\* C15: _parse_duration returns, without raising, a mapping with exactly the
\* two keys StartDate and EndDate for every input: the empty string, null,
\* any string, a number, a mapping, a list; for the empty string and for null
\* both values are "Not specified".
C15_DurationTotal ==
    (op = "duration" /\ pc = "returned") =>
        /\ IsDict(result)
        /\ Len(result.d) = 2
        /\ Keys(result.d) = {ResumeKey.StartDate, ResumeKey.EndDate}
        /\ raw \in {JNull, JStr(<<>>)} =>
               /\ Get(result.d, ResumeKey.StartDate) = Literal.NotSpecified
               /\ Get(result.d, ResumeKey.EndDate) = Literal.NotSpecified

\* _parse_duration returned for a mapping, which has no replace method, and
\* the mapping is the StartDate of what it returned
C15_MappingGiven ==
    /\ op = "duration" /\ pc = "returned"
    /\ raw = JDict(<<KV(<<"s","t","a","r","t">>, JStr(<<"2","0","1","9">>))>>)
    /\ IsDict(result)
    /\ Get(result.d, ResumeKey.StartDate) = raw

\* the separator the claim names for a string: the first of " to ", " - " and
\* "-" that occurs in it, "-" only in a string without a month abbreviation;
\* <<>> when it names none
SeparatorUsed(s) ==
    IF Contains(s, <<" ","t","o"," ">>) THEN <<" ","t","o"," ">>
    ELSE IF Contains(s, <<" ","-"," ">>) THEN <<" ","-"," ">>
    ELSE IF Contains(s, <<"-">>) /\ ~\E m \in MonthAbbrevs : Contains(lower(s), m)
    THEN <<"-">>
    ELSE <<>>

\* what the claim gives for the parts of a split of the string s
SplitResult(s, parts) ==
    IF Len(parts) = 2
    THEN JDict(<<KV(ResumeKey.StartDate, JStr(strip(parts[1]))),
                 KV(ResumeKey.EndDate,
                    IF lower(strip(parts[2])) \in PresentWords THEN Literal.Present
                    ELSE JStr(strip(parts[2])))>>)
    ELSE JDict(<<KV(ResumeKey.StartDate, JStr(s)),
                 KV(ResumeKey.EndDate, Literal.NotSpecified)>>)

C17_SkillsClassified ==
    (/\ op = "jd" /\ pc = "returned"
     /\ Len(raw.d) = 1
     /\ \/ raw.d[1].k = JdKey.RequiredSkills
        \/ LookupIgnoreCase(JdFieldMappings, JdLowerKeys, raw.d[1].k) = JdKey.RequiredSkills
     /\ IsList(raw.d[1].v) \/ IsDict(raw.d[1].v)) =>
        LET Classified(items) ==
                (\A i \in 1..Len(items) : IsStr(items[i])) =>
                    /\ IsDict(result)
                    /\ IsDict(Get(result.d, JdKey.RequiredSkills))
                    /\ Get(result.d, JdKey.RequiredSkills).d =
                           <<KV(JdKey.technical,
                                JList(SelectSeq(items, LAMBDA item : is_technical(item.s)))),
                             KV(JdKey.soft,
                                JList(SelectSeq(items, LAMBDA item : ~is_technical(item.s))))>>
        IN  Classified(IF IsList(raw.d[1].v) THEN raw.d[1].v.l ELSE FlattenSkills(raw.d[1].v.d))


\* the day an experience entry starts and the day it ends, as day numbers,
\* when both dates parse: an end marker stands for the day the clock reads
EntryInterval(exp, now) ==
    LET Interval(start_date, end_date) ==
            LET Ends(start, end, marker) ==
                    [ok    |-> start.ok /\ (marker \/ end.ok),
                     start |-> start.ord,
                     end   |-> IF marker THEN Ordinal(now.y, now.m, now.d) ELSE end.ord]
            IN  IF ~IsStr(start_date) \/ ~IsStr(end_date)
                THEN [ok |-> FALSE, start |-> 0, end |-> 0]
                ELSE Ends(ParseDate(start_date), ParseDate(end_date),
                          lower(end_date.s) \in PresentWords)
        Duration(duration) ==
            IF ~IsDict(duration) THEN [ok |-> FALSE, start |-> 0, end |-> 0]
            ELSE Interval(GetOr(duration.d, ResumeKey.StartDate, JNull),
                          GetOr(duration.d, ResumeKey.EndDate, JNull))
    IN  IF ~IsDict(exp) THEN [ok |-> FALSE, start |-> 0, end |-> 0]
        ELSE Duration(GetOr(exp.d, ResumeKey.Duration, JNull))

\* C18: for a list of entries whose start and end dates all parse, none
\* ending before it starts, _calculate_total_experience returns the sum of the
\* lengths of the intervals in years (days / 365.25), rounded to one decimal,
\* an end marker Present / Current / Now / Ongoing standing for the date of
\* the day of the computation.
C18_TotalUpToToday ==
    (op = "experience" /\ pc = "returned" /\ IsList(raw)) =>
        LET Claimed(intervals) ==
                (\A i \in 1..Len(intervals) : intervals[i].ok /\ intervals[i].start <= intervals[i].end) =>
                    result = JFlt(RoundTenths(FoldRange(
                                 LAMBDA prev, i : prev + 4 * (intervals[i].end - intervals[i].start),
                                 0, 1, Len(intervals))))
        IN  Claimed([i \in 1..Len(raw.l) |-> EntryInterval(raw.l[i], clock)])


\* the key matches no key of the record type's table, ignoring case
Unmapped(o, k) ==
    \A i \in 1..Len(FieldMappings(o)) : lower(FieldMappings(o)[i].k) # lower(k)

\* the names of the fields the record type's table maps to
CanonicalFields(o) == {FieldMappings(o)[i].v : i \in 1..Len(FieldMappings(o))}

\* C19 as stated: every top-level key of the raw object that matches no key
\* of the record type's table, ignoring case, is a key of the returned record
\* with the value it had in the raw object.
C19_UnmappedKept ==
    \A o \in Normalizers :
        Returned(o) =>
            \A i \in 1..Len(raw.d) :
                Unmapped(o, raw.d[i].k) =>
                    /\ HasKey(result.d, raw.d[i].k)
                    /\ Get(result.d, raw.d[i].k) = raw.d[i].v

\* C19, amended: every top-level key of the raw object that matches no key
\* of the record type's table, ignoring case, that is not itself the name of
\* a field the table maps to, and that is not, ignoring case, one of the
\* legacy rating keys MatchScore and OverallRating of a match analysis, is a
\* key of the returned record with the value it had in the raw object.
C19_OtherKeysKept ==
    \A o \in Normalizers :
        Returned(o) =>
            \A i \in 1..Len(raw.d) :
                (/\ Unmapped(o, raw.d[i].k)
                 /\ raw.d[i].k \notin CanonicalFields(o)
                 /\ o = "match" => lower(raw.d[i].k) \notin LegacyRatingKeys) =>
                    /\ HasKey(result.d, raw.d[i].k)
                    /\ Get(result.d, raw.d[i].k) = raw.d[i].v

\* the resume normalizer returned for an object of three keys, one of them
\* "resume_file", and the record has that key with the value "cv.pdf"
C19_ResumeFileKept ==
    /\ Returned("resume")
    /\ Len(raw.d) = 3
    /\ HasKey(raw.d, <<"r","e","s","u","m","e","_","f","i","l","e">>)
    /\ HasKey(result.d, <<"r","e","s","u","m","e","_","f","i","l","e">>)
    /\ Get(result.d, <<"r","e","s","u","m","e","_","f","i","l","e">>) = JStr(<<"c","v",".","p","d","f">>)


\* the value is populated: not null, not empty or blank, not "Not specified"
Populated(value) ==
    /\ value # JNull
    /\ value # Literal.NotSpecified
    /\ strip(PyStr(value)) # <<>>

\* C20: for a list of experience entries and every result of the company
\* lookups, the list _enrich_experience_with_company_info returns has the
\* length and the order of the input, and each of CompanyType, BusinessType,
\* NumberOfEmployees, CompanyRevenue and Funding that held a populated value
\* in an entry has the same value in the enriched entry.
C20_EnrichmentOnlyBackfills ==
    (/\ op = "enrich" /\ pc = "returned"
     /\ IsList(raw)
     /\ \A i \in 1..Len(raw.l) : IsDict(raw.l[i])) =>
        /\ IsList(result)
        /\ Len(result.l) = Len(raw.l)
        /\ \A i \in 1..Len(raw.l) :
               /\ IsDict(result.l[i])
               /\ GetOr(result.l[i].d, ResumeKey.CompanyName, JNull)
                      = GetOr(raw.l[i].d, ResumeKey.CompanyName, JNull)
               /\ \A field \in {ResumeKey.CompanyType, ResumeKey.BusinessType,
                                ResumeKey.NumberOfEmployees, ResumeKey.CompanyRevenue,
                                ResumeKey.Funding} :
                      Populated(GetOr(raw.l[i].d, field, JNull)) =>
                          GetOr(result.l[i].d, field, JNull) = Get(raw.l[i].d, field)


\* C21: in the record a normalizer returns, every key that matches a key of
\* the record type's table, ignoring case, is the name of a field the table
\* maps to: a synonym of the raw object is replaced by the canonical name
\* and is not kept next to it.
C21_SynonymsReplaced ==
    \A o \in Normalizers :
        Returned(o) =>
            \A k \in Keys(result.d) :
                ~Unmapped(o, k) => k \in CanonicalFields(o)


\* the name a top-level key of the raw object is stored under by the main
\* loop of the record type's normalizer
StoredName(o, k) ==
    CASE o = "resume" -> IF HasKey(ResumeFieldMappings, lower(k))
                         THEN Get(ResumeFieldMappings, lower(k)) ELSE k
      [] o = "jd"     -> IF LookupIgnoreCase(JdFieldMappings, JdLowerKeys, k) # <<>>
                         THEN LookupIgnoreCase(JdFieldMappings, JdLowerKeys, k) ELSE k
      [] o = "match"  -> MatchStoredName(k)

\* what the record type's normalizer returns for an object
Normalized(o, object) ==
    CASE o = "resume" -> _normalize_resume_fields(object).val
      [] o = "jd"     -> _normalize_jd_fields(object).val
      [] o = "match"  -> _normalize_match_analysis(object).val

\* the later of two keys of the raw object that are stored under the same
\* canonical field other than AIRating, no key after it being stored there
LaterOfTwo(o, i, j) ==
    /\ i < j
    /\ StoredName(o, raw.d[i].k) = StoredName(o, raw.d[j].k)
    /\ StoredName(o, raw.d[j].k) \in CanonicalFields(o) \ {MatchKey.AIRating}
    /\ \A l \in (j + 1)..Len(raw.d) : StoredName(o, raw.d[l].k) # StoredName(o, raw.d[j].k)

ListFields(o) ==
    CASE o = "resume" -> {ResumeKey.Skills, ResumeKey.Experience, ResumeKey.Education}
      [] o = "jd"     -> {JdKey.OtherImportantRequirements}
      [] o = "match"  -> {MatchKey.CompanyAnalysis, MatchKey.MissingExpectations}

\* the standard fields that hold a mapping of their own
StructuredFields(o) ==
    CASE o = "resume" -> {}
      [] o = "jd"     -> {JdKey.RequiredSkills}
      [] o = "match"  -> {MatchKey.EducationAssessment}

\* the value is the default the policy names for the field
IsDefault(o, field, value) ==
    IF field \in ListFields(o) THEN value = JList(<<>>)
    ELSE IF field \in StructuredFields(o) THEN IsDict(value)
    ELSE IF o = "match" /\ field = MatchKey.AIRating THEN value = JInt(0)
    ELSE IF o = "match" /\ field = MatchKey.ShouldBeShortlisted THEN value = Literal.No
    ELSE value \in {Literal.NotProvided, Literal.NotFound}

\* C23: in the record a normalizer returns, a standard field under which no
\* key of the raw object is stored holds the default of its type: an empty
\* sequence for a sequence field, 0 for the rating, "No" for the shortlist
\* decision, "Not provided" or "Not found" for a free-text field.
C23_DefaultsFilled ==
    \A o \in Normalizers :
        Returned(o) =>
            \A n \in 1..Len(StandardFields(o)) :
                (\A i \in 1..Len(raw.d) : StoredName(o, raw.d[i].k) # StandardFields(o)[n]) =>
                    /\ HasKey(result.d, StandardFields(o)[n])
                    /\ IsDefault(o, StandardFields(o)[n], Get(result.d, StandardFields(o)[n]))


\* C24: in the record the match-analysis normalizer returns, AIRating is a
\* number from 0 to 10.
C24_RatingInRange ==
    Returned("match") =>
        /\ HasKey(result.d, MatchKey.AIRating)
        /\ IsNumber(Get(result.d, MatchKey.AIRating))
        /\ Tenths(Get(result.d, MatchKey.AIRating)) \in 0..100


(***************************************************************************)
(* The session store                                                       *)
(***************************************************************************)

\* the handler answered 200 with status "success"
Succeeded(h) ==
    /\ h.pc = "done" /\ h.code = 200
    /\ h.response # JNull
    /\ Get(h.response.d, <<"s","t","a","t","u","s">>) = Literal.success

\* the store an adding handler wrote its entry to, and the key of the entry
AddedTo(h) ==
    CASE h.endpoint = "upload-resume" -> "resume"
      [] h.endpoint = "upload-jd"     -> "jd"
      [] h.endpoint = "analyze-match" -> "analysis"

AddedKey(h) ==
    CASE h.endpoint = "upload-resume" -> Get(h.response.d, <<"r","e","s","u","m","e","_","i","d">>).s
      [] h.endpoint = "upload-jd"     -> Get(h.response.d, <<"j","d","_","i","d">>).s
      [] h.endpoint = "analyze-match" ->
            Get(h.response.d, <<"r","e","s","u","m","e","_","i","d">>).s \o <<"_">> \o Get(h.response.d, <<"j","d","_","i","d">>).s

\* the three dicts of the handler, by store
Sessions(h) ==
    [resume |-> h.resume_sessions, jd |-> h.jd_sessions, analysis |-> h.analysis_sessions]

\* both handlers added an entry, and each executed load_sessions before the
\* other executed save_sessions: neither was handed the other's entry
BothAddedOverlapping ==
    /\ workers = 2
    /\ \A p \in {1, 2} :
          /\ handlers[p].endpoint \in {"upload-resume", "upload-jd", "analyze-match"}
          /\ Succeeded(handlers[p])
    /\ AddedTo(handlers[1]) # AddedTo(handlers[2]) \/ AddedKey(handlers[1]) # AddedKey(handlers[2])
    /\ ~HasKey(Sessions(handlers[1])[AddedTo(handlers[2])], AddedKey(handlers[2]))
    /\ ~HasKey(Sessions(handlers[2])[AddedTo(handlers[1])], AddedKey(handlers[1]))

\* C25: when two requests that each add an entry (upload-resume, upload-jd,
\* analyze-match) both execute load_sessions before either executes
\* save_sessions and both complete successfully, the entries of both are in
\* the session files.
C25_NoLostUpdate ==
    BothAddedOverlapping =>
        \A p \in {1, 2} : HasKey(files[AddedTo(handlers[p])], AddedKey(handlers[p]))

\* C26: process_job_description returns a result of status "success"
\* whenever the extraction call returned parseable JSON, whatever the
\* company-type enrichment step meets: the two preferences given or missing,
\* a company recognised by name or not, a lookup that gives nothing, info
\* without a BusinessType or info with one.
C26_EnrichmentNeverFails ==
    pc = "returned" /\ op = "process-jd" =>
        HasKey(result.d, <<"s","t","a","t","u","s">>) /\ Get(result.d, <<"s","t","a","t","u","s">>) = Literal.success

\* C27: with requests handled one at a time, every key of the analysis store
\* is resume_id + "_" + jd_id for a key resume_id of the resume store and a
\* key jd_id of the JD store; an analyze-match request that names an unknown
\* resume or JD is answered 404 and leaves the three stores as they were.
C27_ReferentialIntegrity ==
    /\ \A i \in 1..Len(files.analysis) :
          \E resume_id \in Keys(files.resume), jd_id \in Keys(files.jd) :
              files.analysis[i].k = resume_id \o <<"_">> \o jd_id
    /\ \A p \in DOMAIN handlers :
          LET h == handlers[p]
          IN  /\ h.pc = "done" /\ h.endpoint = "analyze-match"
              /\ \/ ~HasKey(h.resume_sessions, h.request.resume_id)
                 \/ ~HasKey(h.jd_sessions, h.request.jd_id)
              => h.code = 404 /\ files = Sessions(h)

\* an analysis was stored for a resume or a JD that a request uploaded
C27_AnalysisStored ==
    \E p \in DOMAIN handlers :
        /\ handlers[p].endpoint = "analyze-match" /\ Succeeded(handlers[p])
        /\ AddedKey(handlers[p]) # <<"a","_","b">>
        /\ HasKey(files.analysis, AddedKey(handlers[p]))

\* the dict d without the entry of key k, if it has one
Without(d, k) == SelectSeq(d, LAMBDA entry : entry.k # k)

\* C28: clear-specific-session(resume_id, jd_id) removes the analysis entry
\* keyed resume_id + "_" + jd_id when there is one and changes nothing else
\* in the three stores; when neither ID names a session it answers status
\* "error" and the stores are as before.
C28_ClearRemovesOneAnalysis ==
    [][\A p \in DOMAIN handlers :
          /\ handlers[p].pc = "loaded" /\ handlers[p].endpoint = "clear-specific-session"
          /\ handlers'[p].pc = "done"
          => LET request == handlers'[p].request
                 analysis_key == request.resume_id \o <<"_">> \o request.jd_id
                 status == Get(handlers'[p].response.d, <<"s","t","a","t","u","s">>)
             IN  IF ~HasKey(files.resume, request.resume_id) /\ ~HasKey(files.jd, request.jd_id)
                 THEN status = Literal.error /\ files' = files
                 ELSE /\ status = Literal.success
                      /\ files'.resume = files.resume
                      /\ files'.jd = files.jd
                      /\ files'.analysis = Without(files.analysis, analysis_key)]_vars

\* the analysis of resume a and JD b was cleared; both sessions are still stored
C28_AnalysisCleared ==
    \E p \in DOMAIN handlers :
        /\ handlers[p].endpoint = "clear-specific-session" /\ Succeeded(handlers[p])
        /\ handlers[p].request.resume_id = <<"a">> /\ handlers[p].request.jd_id = <<"b">>
        /\ ~HasKey(files.analysis, <<"a","_","b">>)
        /\ HasKey(files.resume, <<"a">>) /\ HasKey(files.jd, <<"b">>)

\* every identifier the update gives matches the record: the name and the
\* email address up to case, the phone number exactly
IdentifiersMatch(record, update) ==
    LET Given(key) == Truthy(GetOr(update, key, JNull))
        Stored(field) == GetOr(record.d, field, JStr(<<>>))
        SameText(key, field) ==
            Given(key) => /\ IsStr(Stored(field))
                          /\ lower(Get(update, key).s) = lower(Stored(field).s)
    IN  /\ SameText(<<"n","a","m","e">>, ResumeKey.CandidateFullName)
        /\ SameText(<<"e","m","a","i","l">>, ResumeKey.EmailAddress)
        /\ Given(<<"p","h","o","n","e">>) => Get(update, <<"p","h","o","n","e">>) = Stored(ResumeKey.PhoneNumber)

\* C29: a chat request changes the stored resume record only when the
\* message is a status update, every identifier it gives matches the stored
\* record and the completion call succeeds; otherwise every stored record
\* is what it was, and the record the handler gave to
\* update_candidate_status is what it was as well.
C29_ChatChangesOnlyOnUpdate ==
    [][\A p \in DOMAIN handlers :
          /\ handlers[p].pc = "loaded" /\ handlers[p].endpoint = "chat"
          /\ handlers'[p].pc = "done"
          => LET request == handlers'[p].request
                 status_update == _check_for_status_update(request.query)
             IN  /\ Keys(files'.resume) = Keys(files.resume)
                 /\ files'.jd = files.jd /\ files'.analysis = files.analysis
                 /\ \A resume_id \in Keys(files.resume) :
                       LET before == Get(files.resume, resume_id)
                           after == Get(files'.resume, resume_id)
                       IN  /\ after # before =>
                                 /\ resume_id = request.resume_id
                                 /\ status_update # <<>>
                                 /\ IdentifiersMatch(before, status_update)
                                 /\ request.completed
                           /\ after = before =>
                                 Get(handlers'[p].resume_sessions, resume_id) = before]_vars

\* a chat message rejected the candidate of a stored resume
C29_StatusStored ==
    \E p \in DOMAIN handlers :
        /\ handlers[p].endpoint = "chat" /\ Succeeded(handlers[p])
        /\ handlers[p].request.completed
        /\ HasKey(files.resume, handlers[p].request.resume_id)
        /\ HasKey(Get(files.resume, handlers[p].request.resume_id).d, <<"f","i","n","a","l","_","r","e","s","u","l","t">>)

(***************************************************************************)
(* search_multiple_pages                                                   *)
(***************************************************************************)

\* ceil(n / 10)
CeilTenth(n) == -((-n) \div 10)

\* the items of the pages fetched without error, in page order
FetchedItems(fetched) ==
    LET Step(items, i) ==
            IF fetched[i].status = "error" THEN items ELSE items \o fetched[i].items
    IN  FoldRange(Step, <<>>, 1, Len(fetched))

\* what search_multiple_pages does for the request bound page_bound and the
\* length bound length_bound: the page requests made are at most page_bound;
\* no page but the last one requested is an error or has fewer than 10
\* items; the call returns short of page_bound requests only after such a
\* page, with status "partial_error" exactly when it is an error; the items
\* returned are a prefix, of at most length_bound items, of the items
\* fetched without error
SearchContract(page_bound, length_bound) ==
    op = "search" =>
        LET fetched == data.fetched
            Stopping(page_results) ==
                page_results.status = "error" \/ Len(page_results.items) < 10
        IN  /\ Len(fetched) <= page_bound
            /\ \A i \in 1..(Len(fetched) - 1) : ~Stopping(fetched[i])
            /\ pc = "returned" =>
                  /\ Len(fetched) < page_bound => Len(fetched) > 0 /\ Stopping(fetched[Len(fetched)])
                  /\ result.status = "partial_error"
                         <=> Len(fetched) > 0 /\ fetched[Len(fetched)].status = "error"
                  /\ result.status \in {"success", "partial_error"}
                  /\ Len(result.items) <= length_bound
                  /\ result.items = SubSeq(FetchedItems(fetched), 1, Len(result.items))

=============================================================================
